---- MODULE Spec2Model ----
(***************************************************************************)
(* Verification model of deepface-facs.                                    *)
(*                                                                         *)
(* Part I   : the parallel pipeline coordinator and its worker processes   *)
(*            (facs/core/parallel_processor.py).  The two multiprocessing  *)
(*            queues are bounded FIFO queues; every queue operation of     *)
(*            the code is one atomic step, so that the coordinator and     *)
(*            the workers interleave between any two queue operations.     *)
(* Part II  : IntensityEstimator.format_facs_code as a function of an      *)
(*            insertion-ordered intensity map.                             *)
(* Part III : FACSAnalyzer: set_mode, calibrate and analyze in its three   *)
(*            modes, over detect_all, the estimators and the mapper.       *)
(* Part IV  : the feature extractors and the AU detectors (vectorized,     *)
(*            strategy-based and built-in scoring) on one landmark array   *)
(*            after another.                                               *)
(* Part V   : TemporalFilter.update in binary64 arithmetic.                *)
(* Part VI  : IntensityEstimator.estimate on one AUDetectionResult.        *)
(* Part VII : the confidence and the intensity an AU detector derives from *)
(*            a raw score.                                                 *)
(* Part VIII: the result dict of an InferenceWorker and the records        *)
(*            process_and_visualize rebuilds from it.                      *)
(* Part IX  : FeatureExtractor.compute_distances and compute_angles on one *)
(*            instance.                                                    *)
(* Part X   : _evaluate_emotion of the two EmotionMapper classes.          *)
(* Part XI  : FACSPlayer and its playback loop threads                     *)
(*            (facs/recording/player.py).                                  *)
(***************************************************************************)
EXTENDS Integers, Sequences, FiniteSets, TLC

\* ---------------------------------------------------------------- bounds
MaxWorkers == 2      \* largest num_workers given to the constructor
MaxQueue   == 2      \* largest queue_size given to the constructor
MaxFrames  == 3      \* submit_frame calls in one behaviour
MaxStarts  == 2      \* start() calls in one behaviour
MaxEntries == 3      \* entries of an intensity map given to format_facs_code
MaxActive  == 2      \* AUs that score above 0 in one frame
MaxMoved   == 1      \* quantities of a face that are off their value at rest
MaxWindow  == 3      \* window_size of a TemporalFilter
MaxLoops   == 3      \* playback threads a FACSPlayer starts
MaxRecorded == 2     \* frames of the recording a FACSPlayer holds

None == 0            \* Python None (frame ids start at 1)

Procs == 1..(MaxStarts * MaxWorkers)
Gens  == 1..MaxStarts

VARIABLES
    num_workers,     \* ParallelFACSProcessor.num_workers
    queue_size,      \* ParallelFACSProcessor.queue_size
    gen,             \* number of start() calls; 0: _input_queue is None
    inq,             \* inq[g]: the input queue created by the g-th start()
    outq,            \* outq[g]: the output queue created by the g-th start()
    stop_set,        \* generations whose stop event is set
    closed,          \* generations whose queues were closed by stop()
    workers,         \* ParallelFACSProcessor._workers (process ids)
    wk,              \* wk[p]: worker process p: generation, position, frame
    frame_counter,   \* ParallelFACSProcessor._frame_counter
    latest_result,   \* ParallelFACSProcessor._latest_result (a frame id)
    cpc,             \* position of the (single-threaded) caller
    join_i,          \* index of stop()'s loop over _workers
    \* history variables (written, never read, by the operations)
    last_op,         \* the coordinator method that ran last
    start_base,      \* _frame_counter at the latest start()
    taken,           \* frame ids a worker has popped from an input queue
    enq,             \* frame ids that entered an input queue
    sub_full,        \* the running/last submit_frame found the queue full
    sub_drop,        \* frame id discarded by the running/last submit_frame
    glr_snap,        \* output queue when get_latest_result was called
    glr_prev,        \* _latest_result when get_latest_result was called
    glr_got,         \* results dequeued by the running/last get_latest_result
    glr_touched,     \* a worker used the output queue during that call
    ever_received,   \* some result has been dequeued by the coordinator
    max_ret,         \* largest frame id ever stored in _latest_result
    took,            \* took[f]: how often a worker popped frame f
    results,         \* results[f]: how often a result of frame f entered an output queue
    dropped,         \* frame ids submit_frame discarded from an input queue
    \* Part II
    f_map,           \* the intensity_results argument, in insertion order
    f_code,          \* the string format_facs_code returned
    f_pc,            \* "ready": not yet called; "done": returned
    \* Part III
    a_mode,          \* FACSAnalyzer._mode
    a_window,        \* FACSAnalyzer._temporal_filter._window_size
    a_history,       \* FACSAnalyzer._temporal_filter._history
    a_calibrated,    \* FACSAnalyzer._calibrated
    a_baseline,      \* length of FACSAnalyzer._baseline_landmarks, or None
    a_in,            \* (history) what the latest analyze call read
    a_out,           \* (history) what the latest analyze call returned or raised
    a_called,        \* (history) analyze has been called
    a_seen,          \* (history) the latest AU maps given to the filter since set_mode
    a_k,             \* (history) how many were given since set_mode, counted to SeenKept
    a_smoothed,      \* (history) the map the filter returned in the latest analyze call
    \* Part IV
    d_optimized,     \* FACSAnalyzer(use_optimized=...): which components were built
    d_strategies,    \* AUDetector._strategies (the AU numbers registered)
    d_last_alignment,\* FeatureExtractor._last_alignment, or None
    d_in,            \* (history) the landmark set of the latest run
    d_out,           \* (history) what the latest run produced
    d_ref_in,        \* (history) the landmark set of the first run
    d_ref_out,       \* (history) what the first run produced
    d_between,       \* (history) another landmark set was processed since the first run
    \* Part V
    t_window,        \* TemporalFilter._window_size
    t_history,       \* TemporalFilter._history
    t_in,            \* (history) the map given to the latest update
    t_out,           \* (history) the map the latest update returned
    t_same,          \* (history) how many of the latest updates got that same map
    \* Part VI
    e_in,            \* the AUDetectionResult given to estimate
    e_out,           \* the IntensityResult it returned
    e_pc,            \* "ready" before the call, "done" after it
    \* Part VII
    c_au,            \* the AU scored, which fixes the threshold pair
    c_now,           \* (history) raw score and confidences of the latest scoring
    c_prev,          \* (history) raw score and confidences of the one before
    c_calls,         \* (history) scorings so far, counted up to 2
    \* Part VIII
    v_mode,          \* InferenceWorker.mode of the worker that emits
    v_dict,          \* the result_dict of the latest ResultData
    v_raised,        \* what _visualize_from_dict raised on it, or "none"
    v_pc,            \* "idle", "emitted" or "done"
    \* Part IX: FeatureExtractor, the angles
    x_use_alignment, \* FeatureExtractor._use_alignment
    x_last_alignment,\* FeatureExtractor._last_alignment, None before the first call
    x_in,            \* the landmark array of the latest call
    x_angles,        \* what the latest compute_angles call returned
    x_op,            \* the latest call: none, distances or angles
    \* Part X: _evaluate_emotion
    m_legacy,        \* the class: facs.emotion_mapper (TRUE) or facs.estimators.emotion_mapper
    m_in,            \* definition, detected_aus and au_intensities of the latest call
    m_out,           \* the terms and the confidence of the latest call
    m_pc,            \* idle before the first call, done after one
    \* Part XI: FACSPlayer
    y_state,         \* FACSPlayer._state
    y_stop_event,    \* FACSPlayer._stop_event is set
    y_current_frame, \* FACSPlayer._current_frame
    y_playback_thread,\* FACSPlayer._playback_thread (a thread id), or None
    y_loop,          \* y_loop[t]: thread t running _playback_loop: position and the index it loaded
    y_started,       \* threads started so far
    y_cpc,           \* the caller: idle, or join inside stop()
    y_op,            \* (history) the method the caller called last
    y_delivered      \* (history) the indices passed to the frame callback since the latest stop()

pvars == <<num_workers, queue_size, gen, inq, outq, stop_set, closed, workers,
           wk, frame_counter, latest_result, cpc, join_i, last_op, start_base,
           taken, enq, sub_full, sub_drop, glr_snap, glr_prev, glr_got,
           glr_touched, ever_received, max_ret, took, results, dropped>>

fvars == <<f_map, f_code, f_pc>>

avars == <<a_mode, a_window, a_history, a_calibrated, a_baseline, a_in, a_out, a_called,
           a_seen, a_k, a_smoothed>>

dvars == <<d_optimized, d_strategies, d_last_alignment, d_in, d_out, d_ref_in, d_ref_out,
           d_between>>

tvars == <<t_window, t_history, t_in, t_out, t_same>>

evars == <<e_in, e_out, e_pc>>

cvars == <<c_au, c_now, c_prev, c_calls>>

vvars == <<v_mode, v_dict, v_raised, v_pc>>

xvars == <<x_use_alignment, x_last_alignment, x_in, x_angles, x_op>>

mvars == <<m_legacy, m_in, m_out, m_pc>>

yvars == <<y_state, y_stop_event, y_current_frame, y_playback_thread, y_loop, y_started,
           y_cpc, y_op, y_delivered>>

vars == <<pvars, fvars, avars, dvars, tvars, evars, cvars, vvars, xvars, mvars, yvars>>

\* the variables a method of one component cannot touch
nonpvars == <<fvars, avars, dvars, tvars, evars, cvars, vvars, xvars, mvars, yvars>>

nonfvars == <<pvars, avars, dvars, tvars, evars, cvars, vvars, xvars, mvars, yvars>>

nonavars == <<pvars, fvars, dvars, tvars, evars, cvars, vvars, xvars, mvars, yvars>>

nondvars == <<pvars, fvars, avars, tvars, evars, cvars, vvars, xvars, mvars, yvars>>

nontvars == <<pvars, fvars, avars, dvars, evars, cvars, vvars, xvars, mvars, yvars>>

nonevars == <<pvars, fvars, avars, dvars, tvars, cvars, vvars, xvars, mvars, yvars>>

noncvars == <<pvars, fvars, avars, dvars, tvars, evars, vvars, xvars, mvars, yvars>>

nonvvars == <<pvars, fvars, avars, dvars, tvars, evars, cvars, xvars, mvars, yvars>>

nonxvars == <<pvars, fvars, avars, dvars, tvars, evars, cvars, vvars, mvars, yvars>>

nonmvars == <<pvars, fvars, avars, dvars, tvars, evars, cvars, vvars, xvars, yvars>>

nonyvars == <<pvars, fvars, avars, dvars, tvars, evars, cvars, vvars, xvars, mvars>>

\* ---------------------------------------------------------------- helpers
Last(s) == s[Len(s)]

Min(a, b) == IF a <= b THEN a ELSE b

\* a worker process that has been spawned and has neither returned from
\* run() nor been terminated
Alive(p) == wk[p].pc \notin {"none", "done", "killed"}

LiveWorkers == {p \in Procs : Alive(p)}

\* the coordinator has queues and they are open
Running == gen > 0 /\ gen \notin closed

NoWorker == [gen |-> 0, pc |-> "none", frame |-> None]

\* the history of the previous submit_frame / get_latest_result call is
\* forgotten when another method is entered
ForgetSubmit == sub_full' = FALSE /\ sub_drop' = None

ForgetGetLatest ==
    /\ glr_snap' = <<>>
    /\ glr_prev' = None
    /\ glr_got' = <<>>
    /\ glr_touched' = FALSE

\* ------------------------------------------------------------ construction
PInit ==
    /\ num_workers \in 1..MaxWorkers
    /\ queue_size \in 1..MaxQueue
    /\ gen = 0
    /\ inq = [g \in Gens |-> <<>>]
    /\ outq = [g \in Gens |-> <<>>]
    /\ stop_set = {}
    /\ closed = {}
    /\ workers = <<>>
    /\ wk = [p \in Procs |-> NoWorker]
    /\ frame_counter = 0
    /\ latest_result = None
    /\ cpc = "idle"
    /\ join_i = 0
    /\ last_op = "none"
    /\ start_base = 0
    /\ taken = {}
    /\ enq = {}
    /\ sub_full = FALSE
    /\ sub_drop = None
    /\ glr_snap = <<>>
    /\ glr_prev = None
    /\ glr_got = <<>>
    /\ glr_touched = FALSE
    /\ ever_received = FALSE
    /\ max_ret = 0
    /\ took = [f \in 1..MaxFrames |-> 0]
    /\ results = [f \in 1..MaxFrames |-> 0]
    /\ dropped = {}

\* --------------------------------------------------- ParallelFACSProcessor
\* start(): new queues and a new stop event replace the old ones, and
\* num_workers processes are spawned and appended to _workers.
NewProcs == {p \in Procs : Len(workers) < p /\ p <= Len(workers) + num_workers}

Spawned ==
    [p \in Procs |->
        IF p \in NewProcs
        THEN [gen |-> gen + 1, pc |-> "check", frame |-> None]
        ELSE wk[p]]

RECURSIVE Ascending(_, _)
Ascending(from, n) == IF n = 0 THEN <<>> ELSE <<from>> \o Ascending(from + 1, n - 1)

Start ==
    /\ cpc = "idle"
    /\ gen < MaxStarts
    /\ Len(workers) + num_workers <= MaxStarts * MaxWorkers
    /\ gen' = gen + 1
    /\ inq' = [inq EXCEPT ![gen + 1] = <<>>]
    /\ outq' = [outq EXCEPT ![gen + 1] = <<>>]
    /\ wk' = Spawned
    /\ workers' = workers \o Ascending(Len(workers) + 1, num_workers)
    /\ last_op' = "start"
    /\ start_base' = frame_counter
    /\ ForgetSubmit
    /\ ForgetGetLatest
    /\ UNCHANGED nonpvars
    /\ UNCHANGED <<took, results, dropped>>
    /\ UNCHANGED <<num_workers, queue_size, stop_set, closed, frame_counter,
                   latest_result, cpc, join_i, taken, enq, ever_received,
                   max_ret>>

\* stop(), first statement: set the stop event if there is one.
StopBegin ==
    /\ cpc = "idle"
    /\ stop_set' = IF gen > 0 THEN stop_set \cup {gen} ELSE stop_set
    /\ cpc' = "stop_join"
    /\ join_i' = 1
    /\ last_op' = "stop"
    /\ ForgetSubmit
    /\ ForgetGetLatest
    /\ UNCHANGED nonpvars
    /\ UNCHANGED <<took, results, dropped>>
    /\ UNCHANGED <<num_workers, queue_size, gen, inq, outq, closed, workers, wk,
                   frame_counter, latest_result, start_base, taken, enq,
                   ever_received, max_ret>>

\* stop(), loop body: p.join(timeout=2.0) returns because the process ended.
StopJoinExited ==
    /\ cpc = "stop_join"
    /\ join_i <= Len(workers)
    /\ ~Alive(workers[join_i])
    /\ join_i' = join_i + 1
    /\ UNCHANGED nonpvars
    /\ UNCHANGED <<took, results, dropped>>
    /\ UNCHANGED <<num_workers, queue_size, gen, inq, outq, stop_set, closed,
                   workers, wk, frame_counter, latest_result, cpc, last_op,
                   start_base, taken, enq, sub_full, sub_drop, glr_snap,
                   glr_prev, glr_got, glr_touched, ever_received, max_ret>>

\* stop(), loop body: the join timed out, p.is_alive() holds, p.terminate().
Terminated(p) == [wk EXCEPT ![p].pc = "killed", ![p].frame = None]

\* mutant: the timed-out process is left running
StopJoinTimeout_NoTerminate ==
    /\ cpc = "stop_join"
    /\ join_i <= Len(workers)
    /\ Alive(workers[join_i])
    /\ join_i' = join_i + 1
    /\ UNCHANGED nonpvars
    /\ UNCHANGED <<took, results, dropped>>
    /\ UNCHANGED <<num_workers, queue_size, gen, inq, outq, stop_set, closed,
                   workers, wk, frame_counter, latest_result, cpc, last_op,
                   start_base, taken, enq, sub_full, sub_drop, glr_snap,
                   glr_prev, glr_got, glr_touched, ever_received, max_ret>>

StopJoinTimeout ==
    /\ cpc = "stop_join"
    /\ join_i <= Len(workers)
    /\ Alive(workers[join_i])
    /\ wk' = Terminated(workers[join_i])
    /\ join_i' = join_i + 1
    /\ UNCHANGED nonpvars
    /\ UNCHANGED <<took, results, dropped>>
    /\ UNCHANGED <<num_workers, queue_size, gen, inq, outq, stop_set, closed,
                   workers, frame_counter, latest_result, cpc, last_op,
                   start_base, taken, enq, sub_full, sub_drop, glr_snap,
                   glr_prev, glr_got, glr_touched, ever_received, max_ret>>

\* stop(), after the loop: _workers.clear(), close both queues, return.
StopFinish ==
    /\ cpc = "stop_join"
    /\ join_i > Len(workers)
    /\ workers' = <<>>
    /\ closed' = IF gen > 0 THEN closed \cup {gen} ELSE closed
    /\ cpc' = "idle"
    /\ join_i' = 0
    /\ UNCHANGED nonpvars
    /\ UNCHANGED <<took, results, dropped>>
    /\ UNCHANGED <<num_workers, queue_size, gen, inq, outq, stop_set, wk,
                   frame_counter, latest_result, last_op, start_base, taken,
                   enq, sub_full, sub_drop, glr_snap, glr_prev, glr_got,
                   glr_touched, ever_received, max_ret>>

\* submit_frame(), up to the first put(frame_data, timeout=0.01): the frame
\* is appended, or the put times out with Full.
SubmitPut ==
    /\ cpc = "idle"
    /\ Running
    /\ frame_counter < MaxFrames
    /\ frame_counter' = frame_counter + 1
    /\ last_op' = "submit"
    /\ sub_drop' = None
    /\ IF Len(inq[gen]) < queue_size
       THEN /\ inq' = [inq EXCEPT ![gen] = Append(@, frame_counter + 1)]
            /\ enq' = enq \cup {frame_counter + 1}
            /\ sub_full' = FALSE
            /\ cpc' = "idle"
       ELSE /\ sub_full' = TRUE
            /\ cpc' = "sub_get"
            /\ UNCHANGED <<inq, enq>>
    /\ ForgetGetLatest
    /\ UNCHANGED nonpvars
    /\ UNCHANGED <<took, results, dropped>>
    /\ UNCHANGED <<num_workers, queue_size, gen, outq, stop_set, closed, workers,
                   wk, join_i, latest_result, start_base, taken, ever_received,
                   max_ret>>

\* mutant: the newest buffered frame is discarded instead of the oldest
SubmitDropOldest_DropNewest ==
    /\ cpc = "sub_get"
    /\ IF inq[gen] # <<>>
       THEN /\ inq' = [inq EXCEPT ![gen] = SubSeq(@, 1, Len(@) - 1)]
            /\ sub_drop' = Last(inq[gen])
            /\ dropped' = dropped \cup {Last(inq[gen])}
            /\ cpc' = "sub_put"
       ELSE /\ cpc' = "idle"
            /\ UNCHANGED <<inq, sub_drop, dropped>>
    /\ UNCHANGED nonpvars
    /\ UNCHANGED <<took, results>>
    /\ UNCHANGED <<num_workers, queue_size, gen, outq, stop_set, closed, workers,
                   wk, frame_counter, latest_result, join_i, last_op,
                   start_base, taken, enq, sub_full, glr_snap, glr_prev,
                   glr_got, glr_touched, ever_received, max_ret>>

\* submit_frame(), except Full: get_nowait() discards the head of the queue;
\* if it raises Empty the bare except swallows it and the method returns.
SubmitDropOldest ==
    /\ cpc = "sub_get"
    /\ IF inq[gen] # <<>>
       THEN /\ inq' = [inq EXCEPT ![gen] = Tail(@)]
            /\ sub_drop' = Head(inq[gen])
            /\ dropped' = dropped \cup {Head(inq[gen])}
            /\ cpc' = "sub_put"
       ELSE /\ cpc' = "idle"
            /\ UNCHANGED <<inq, sub_drop, dropped>>
    /\ UNCHANGED nonpvars
    /\ UNCHANGED <<took, results>>
    /\ UNCHANGED <<num_workers, queue_size, gen, outq, stop_set, closed, workers,
                   wk, frame_counter, latest_result, join_i, last_op,
                   start_base, taken, enq, sub_full, glr_snap, glr_prev,
                   glr_got, glr_touched, ever_received, max_ret>>

\* submit_frame(), second put(frame_data, timeout=0.01); a Full is swallowed.
SubmitRetryPut ==
    /\ cpc = "sub_put"
    /\ IF Len(inq[gen]) < queue_size
       THEN /\ inq' = [inq EXCEPT ![gen] = Append(@, frame_counter)]
            /\ enq' = enq \cup {frame_counter}
       ELSE UNCHANGED <<inq, enq>>
    /\ cpc' = "idle"
    /\ UNCHANGED nonpvars
    /\ UNCHANGED <<took, results, dropped>>
    /\ UNCHANGED <<num_workers, queue_size, gen, outq, stop_set, closed, workers,
                   wk, frame_counter, latest_result, join_i, last_op,
                   start_base, taken, sub_full, sub_drop, glr_snap, glr_prev,
                   glr_got, glr_touched, ever_received, max_ret>>

\* get_latest_result() is entered.
GetLatestCall ==
    /\ cpc = "idle"
    /\ Running
    /\ cpc' = "glr"
    /\ last_op' = "glr"
    /\ glr_snap' = outq[gen]
    /\ glr_prev' = latest_result
    /\ glr_got' = <<>>
    /\ glr_touched' = FALSE
    /\ ForgetSubmit
    /\ UNCHANGED nonpvars
    /\ UNCHANGED <<took, results, dropped>>
    /\ UNCHANGED <<num_workers, queue_size, gen, inq, outq, stop_set, closed,
                   workers, wk, frame_counter, latest_result, join_i,
                   start_base, taken, enq, ever_received, max_ret>>

\* get_latest_result(), one iteration of `while True`: get_nowait() yields a
\* result, which overwrites _latest_result, or raises Empty, which ends the
\* loop and returns _latest_result.
Max(a, b) == IF a >= b THEN a ELSE b

\* mutant: the loop ends after the first result
GetLatestStep_First ==
    /\ cpc = "glr"
    /\ IF outq[gen] # <<>>
       THEN /\ outq' = [outq EXCEPT ![gen] = Tail(@)]
            /\ latest_result' = Head(outq[gen])
            /\ glr_got' = Append(glr_got, Head(outq[gen]))
            /\ ever_received' = TRUE
            /\ max_ret' = Max(max_ret, Head(outq[gen]))
       ELSE UNCHANGED <<outq, latest_result, glr_got, ever_received, max_ret>>
    /\ cpc' = "idle"
    /\ UNCHANGED nonpvars
    /\ UNCHANGED <<took, results, dropped>>
    /\ UNCHANGED <<num_workers, queue_size, gen, inq, stop_set, closed, workers,
                   wk, frame_counter, join_i, last_op, start_base, taken, enq,
                   sub_full, sub_drop, glr_snap, glr_prev, glr_touched>>

\* mutant: a result older than the stored one is discarded on arrival
GetLatestStep_KeepNewest ==
    /\ cpc = "glr"
    /\ IF outq[gen] # <<>>
       THEN /\ outq' = [outq EXCEPT ![gen] = Tail(@)]
            /\ latest_result' = Max(latest_result, Head(outq[gen]))
            /\ glr_got' = Append(glr_got, Head(outq[gen]))
            /\ ever_received' = TRUE
            /\ max_ret' = Max(max_ret, Head(outq[gen]))
            /\ cpc' = "glr"
       ELSE /\ cpc' = "idle"
            /\ UNCHANGED <<outq, latest_result, glr_got, ever_received, max_ret>>
    /\ UNCHANGED nonpvars
    /\ UNCHANGED <<took, results, dropped>>
    /\ UNCHANGED <<num_workers, queue_size, gen, inq, stop_set, closed, workers,
                   wk, frame_counter, join_i, last_op, start_base, taken, enq,
                   sub_full, sub_drop, glr_snap, glr_prev, glr_touched>>

GetLatestStep ==
    /\ cpc = "glr"
    /\ IF outq[gen] # <<>>
       THEN /\ outq' = [outq EXCEPT ![gen] = Tail(@)]
            /\ latest_result' = Head(outq[gen])
            /\ glr_got' = Append(glr_got, Head(outq[gen]))
            /\ ever_received' = TRUE
            /\ max_ret' = Max(max_ret, Head(outq[gen]))
            /\ cpc' = "glr"
       ELSE /\ cpc' = "idle"
            /\ UNCHANGED <<outq, latest_result, glr_got, ever_received, max_ret>>
    /\ UNCHANGED nonpvars
    /\ UNCHANGED <<took, results, dropped>>
    /\ UNCHANGED <<num_workers, queue_size, gen, inq, stop_set, closed, workers,
                   wk, frame_counter, join_i, last_op, start_base, taken, enq,
                   sub_full, sub_drop, glr_snap, glr_prev, glr_touched>>

\* --------------------------------------------------------- InferenceWorker
\* `while not self.stop_event.is_set()`
WorkerCheck(p) ==
    /\ wk[p].pc = "check"
    /\ wk' = [wk EXCEPT ![p].pc = IF wk[p].gen \in stop_set THEN "done" ELSE "get"]
    /\ UNCHANGED nonpvars
    /\ UNCHANGED <<took, results, dropped>>
    /\ UNCHANGED <<num_workers, queue_size, gen, inq, outq, stop_set, closed,
                   workers, frame_counter, latest_result, cpc, join_i, last_op,
                   start_base, taken, enq, sub_full, sub_drop, glr_snap,
                   glr_prev, glr_got, glr_touched, ever_received, max_ret>>

\* mutant: the frame is read and left at the head of the queue
WorkerGet_Peek(p) ==
    /\ wk[p].pc = "get"
    /\ LET g == wk[p].gen IN
       IF inq[g] # <<>>
       THEN /\ wk' = [wk EXCEPT ![p].pc = "work", ![p].frame = Head(inq[g])]
            /\ inq' = inq
            /\ taken' = taken \cup {Head(inq[g])}
            /\ took' = [took EXCEPT ![Head(inq[g])] = @ + 1]
       ELSE /\ wk' = [wk EXCEPT ![p].pc = "check"]
            /\ UNCHANGED <<inq, taken, took>>
    /\ UNCHANGED nonpvars
    /\ UNCHANGED <<results, dropped>>
    /\ UNCHANGED <<num_workers, queue_size, gen, outq, stop_set, closed, workers,
                   frame_counter, latest_result, cpc, join_i, last_op,
                   start_base, enq, sub_full, sub_drop, glr_snap, glr_prev,
                   glr_got, glr_touched, ever_received, max_ret>>

\* input_queue.get(timeout=0.1): a frame, or Empty and `continue`
WorkerGet(p) ==
    /\ wk[p].pc = "get"
    /\ LET g == wk[p].gen IN
       IF inq[g] # <<>>
       THEN /\ wk' = [wk EXCEPT ![p].pc = "work", ![p].frame = Head(inq[g])]
            /\ inq' = [inq EXCEPT ![g] = Tail(@)]
            /\ taken' = taken \cup {Head(inq[g])}
            /\ took' = [took EXCEPT ![Head(inq[g])] = @ + 1]
       ELSE /\ wk' = [wk EXCEPT ![p].pc = "check"]
            /\ UNCHANGED <<inq, taken, took>>
    /\ UNCHANGED nonpvars
    /\ UNCHANGED <<results, dropped>>
    /\ UNCHANGED <<num_workers, queue_size, gen, outq, stop_set, closed, workers,
                   frame_counter, latest_result, cpc, join_i, last_op,
                   start_base, enq, sub_full, sub_drop, glr_snap, glr_prev,
                   glr_got, glr_touched, ever_received, max_ret>>

\* a worker operation on the output queue the coordinator is draining
Touches(p) == glr_touched \/ (cpc = "glr" /\ wk[p].gen = gen)

\* the analysis of the frame, then output_queue.put(result_data, timeout=0.05):
\* the result (keyed by its frame id) is appended, or the put raises Full
WorkerPut(p) ==
    /\ wk[p].pc = "work"
    /\ LET g == wk[p].gen IN
       IF Len(outq[g]) < queue_size
       THEN /\ outq' = [outq EXCEPT ![g] = Append(@, wk[p].frame)]
            /\ wk' = [wk EXCEPT ![p].pc = "check", ![p].frame = None]
            /\ glr_touched' = Touches(p)
            /\ results' = [results EXCEPT ![wk[p].frame] = @ + 1]
       ELSE /\ wk' = [wk EXCEPT ![p].pc = "put_full"]
            /\ UNCHANGED <<outq, glr_touched, results>>
    /\ UNCHANGED nonpvars
    /\ UNCHANGED <<took, dropped>>
    /\ UNCHANGED <<num_workers, queue_size, gen, inq, stop_set, closed, workers,
                   frame_counter, latest_result, cpc, join_i, last_op,
                   start_base, taken, enq, sub_full, sub_drop, glr_snap,
                   glr_prev, glr_got, ever_received, max_ret>>

\* except Full: output_queue.get_nowait() discards the oldest result; an
\* Empty is swallowed by the bare except and the result is given up
WorkerDropOldest(p) ==
    /\ wk[p].pc = "put_full"
    /\ LET g == wk[p].gen IN
       IF outq[g] # <<>>
       THEN /\ outq' = [outq EXCEPT ![g] = Tail(@)]
            /\ wk' = [wk EXCEPT ![p].pc = "put_retry"]
            /\ glr_touched' = Touches(p)
       ELSE /\ wk' = [wk EXCEPT ![p].pc = "check", ![p].frame = None]
            /\ UNCHANGED <<outq, glr_touched>>
    /\ UNCHANGED nonpvars
    /\ UNCHANGED <<took, results, dropped>>
    /\ UNCHANGED <<num_workers, queue_size, gen, inq, stop_set, closed, workers,
                   frame_counter, latest_result, cpc, join_i, last_op,
                   start_base, taken, enq, sub_full, sub_drop, glr_snap,
                   glr_prev, glr_got, ever_received, max_ret>>

\* mutant: the second put places the result at the head of the queue
WorkerRetryPut_AtHead(p) ==
    /\ wk[p].pc = "put_retry"
    /\ LET g == wk[p].gen IN
       IF Len(outq[g]) < queue_size
       THEN /\ outq' = [outq EXCEPT ![g] = <<wk[p].frame>> \o @]
            /\ glr_touched' = Touches(p)
            /\ results' = [results EXCEPT ![wk[p].frame] = @ + 1]
       ELSE UNCHANGED <<outq, glr_touched, results>>
    /\ wk' = [wk EXCEPT ![p].pc = "check", ![p].frame = None]
    /\ UNCHANGED nonpvars
    /\ UNCHANGED <<took, dropped>>
    /\ UNCHANGED <<num_workers, queue_size, gen, inq, stop_set, closed, workers,
                   frame_counter, latest_result, cpc, join_i, last_op,
                   start_base, taken, enq, sub_full, sub_drop, glr_snap,
                   glr_prev, glr_got, ever_received, max_ret>>

\* second output_queue.put(result_data, timeout=0.05); a Full is swallowed
WorkerRetryPut(p) ==
    /\ wk[p].pc = "put_retry"
    /\ LET g == wk[p].gen IN
       IF Len(outq[g]) < queue_size
       THEN /\ outq' = [outq EXCEPT ![g] = Append(@, wk[p].frame)]
            /\ glr_touched' = Touches(p)
            /\ results' = [results EXCEPT ![wk[p].frame] = @ + 1]
       ELSE UNCHANGED <<outq, glr_touched, results>>
    /\ wk' = [wk EXCEPT ![p].pc = "check", ![p].frame = None]
    /\ UNCHANGED nonpvars
    /\ UNCHANGED <<took, dropped>>
    /\ UNCHANGED <<num_workers, queue_size, gen, inq, stop_set, closed, workers,
                   frame_counter, latest_result, cpc, join_i, last_op,
                   start_base, taken, enq, sub_full, sub_drop, glr_snap,
                   glr_prev, glr_got, ever_received, max_ret>>

Worker(p) ==
    \/ WorkerCheck(p)
    \/ WorkerGet(p)
    \/ WorkerPut(p)
    \/ WorkerDropOldest(p)
    \/ WorkerRetryPut(p)

Coordinator ==
    \/ Start
    \/ StopBegin
    \/ StopJoinExited
    \/ StopJoinTimeout
    \/ StopFinish
    \/ SubmitPut
    \/ SubmitDropOldest
    \/ SubmitRetryPut
    \/ GetLatestCall
    \/ GetLatestStep

\* ========================================================== Part II
\* AUIntensity (core/enums.py) by its value
ABSENT  == 0
TRACE   == 1
SLIGHT  == 2
MARKED  == 3
SEVERE  == 4
MAXIMUM == 5

Intensities == {ABSENT, TRACE, SLIGHT, MARKED, SEVERE, MAXIMUM}

\* IntensityEstimator.INTENSITY_LABELS
INTENSITY_LABELS == <<"-", "A", "B", "C", "D", "E">>

Label(i) == INTENSITY_LABELS[i + 1]

\* list.sort(key=lambda x: x[0]): a stable sort, ascending in the AU number
\* (s is a sequence of <<au_number, label>> pairs)
RECURSIVE InsertByAU(_, _)
InsertByAU(x, s) ==
    IF s = <<>> THEN <<x>>
    ELSE IF x[1] < Head(s)[1] THEN <<x>> \o s
    ELSE <<Head(s)>> \o InsertByAU(x, Tail(s))

RECURSIVE SortByAUFrom(_, _)
SortByAUFrom(s, i) ==
    IF i = 0 THEN <<>> ELSE InsertByAU(s[i], SortByAUFrom(s, i - 1))

\* mutant: the list is left in insertion order
SortByAU_Unsorted(s) == s

SortByAU(s) == SortByAUFrom(s, Len(s))

\* " + ".join(f"AU{au}{label}" for au, label in active)
RECURSIVE JoinCode(_)
JoinCode(s) ==
    IF s = <<>> THEN ""
    ELSE "AU" \o ToString(Head(s)[1]) \o Head(s)[2] \o
         (IF Tail(s) = <<>> THEN "" ELSE " + " \o JoinCode(Tail(s)))

\* the list comprehension of format_facs_code: the entries that are not
\* ABSENT, as (au_number, intensity_label), in the order of the dict
RECURSIVE ActiveOf(_)
ActiveOf(m) ==
    IF m = <<>> THEN <<>>
    ELSE (IF Head(m).intensity # ABSENT
          THEN <<<<Head(m).au_number, Head(m).intensity_label>>>>
          ELSE <<>>) \o ActiveOf(Tail(m))

\* IntensityEstimator.format_facs_code
FormatFacsCode(m) ==
    IF ActiveOf(m) = <<>> THEN "Neutral" ELSE JoinCode(SortByAU(ActiveOf(m)))

\* the AUs of the intensity maps given to format_facs_code: one- and
\* two-digit AU numbers of AU_DEFINITIONS
FacsAUs == {1, 6, 12, 25}

\* an intensity map: distinct AU keys in any insertion order, each entry
\* labelled as IntensityEstimator.estimate labels it
IntensityEntry(au, i) ==
    [au_number |-> au, intensity |-> i, intensity_label |-> Label(i)]

IntensityMaps ==
    UNION {
        {m \in [1..n -> {IntensityEntry(au, i) : au \in FacsAUs, i \in Intensities}] :
            \A j, k \in 1..n : j # k => m[j].au_number # m[k].au_number}
        : n \in 0..MaxEntries}

FInit ==
    /\ f_map \in IntensityMaps
    /\ f_code = ""
    /\ f_pc = "ready"

FIdle ==
    /\ f_map = <<>>
    /\ f_code = ""
    /\ f_pc = "ready"

\* the pipeline before construction of any coordinator activity
PIdle ==
    /\ PInit
    /\ num_workers = 1
    /\ queue_size = 1

FormatCall ==
    /\ f_pc = "ready"
    /\ f_code' = FormatFacsCode(f_map)
    /\ f_pc' = "done"
    /\ UNCHANGED f_map
    /\ UNCHANGED nonfvars

\* ========================================================== Part III
\* raw_score and confidence are kept as integers: ScoreUnit stands for 1.0.
\* The raw scores fed to the model (ScoreLevels) are multiples of 24, so that
\* the means of two and three of them, the division by the high threshold and
\* the baseline factors 1/2 and 3/4 stay exact, and none of the values that
\* arise sits on a threshold where floating-point rounding would decide.
ScoreUnit == 12 * 100

\* an emotion confidence is kept in units of 1/EUnit: 0.7/r, 0.2/p, the
\* intensity bonus and the ensemble factors 1.1 and 0.9 are exact in it
EUnit == 250 * ScoreUnit

\* VectorizedAUDetector.THRESHOLDS: low 0.15 and high 0.4 for every AU
LOW == (15 * ScoreUnit) \div 100

HIGH == (40 * ScoreUnit) \div 100

\* VectorizedAUDetector.AU_NUMBERS, the order of the keys of detect_all
AU_NUMBERS == <<1, 2, 4, 5, 6, 7, 9, 12, 15, 25, 26, 43>>

\* VectorizedAUDetector._score_to_intensity_fast
ScoreToIntensityFast(score) ==
    IF 2 * score < LOW THEN ABSENT
    ELSE IF score < LOW THEN TRACE
    ELSE IF 100 * score < 66 * HIGH THEN SLIGHT
    ELSE IF score < HIGH THEN MARKED
    ELSE IF 10 * score < 13 * HIGH THEN SEVERE
    ELSE MAXIMUM

\* one AUDetectionResult of detect_all, from the raw score and the
\* asymmetry of the AU
DetectOne(au, raw, asymmetry) ==
    [au_number  |-> au,
     detected   |-> raw >= LOW,
     confidence |-> IF raw > 0 THEN Min((raw * ScoreUnit) \div HIGH, ScoreUnit) ELSE 0,
     intensity  |-> ScoreToIntensityFast(raw),
     raw_score  |-> raw,
     asymmetry  |-> asymmetry]

\* VectorizedAUDetector.detect_all: scores and asymmetries are the arrays
\* returned by _compute_all_scores_vectorized, indexed like AU_NUMBERS
DetectAll(scores, asymmetries) ==
    [i \in 1..Len(AU_NUMBERS) |-> DetectOne(AU_NUMBERS[i], scores[i], asymmetries[i])]

\* dict lookups on a map kept as a sequence of records in insertion order
Keys(m) == {m[i].au_number : i \in 1..Len(m)}

Lookup(m, au) == m[CHOOSE i \in 1..Len(m) : m[i].au_number = au]

\* mutant: the detected flag is not looked at
Estimate_NoDetectedTest(au) ==
    LET v == au.raw_score * 5
        i == IF 2 * v < ScoreUnit THEN ABSENT
             ELSE IF 2 * v < 3 * ScoreUnit THEN TRACE
             ELSE IF 2 * v < 5 * ScoreUnit THEN SLIGHT
             ELSE IF 2 * v < 7 * ScoreUnit THEN MARKED
             ELSE IF 2 * v < 9 * ScoreUnit THEN SEVERE
             ELSE MAXIMUM
    IN [au_number |-> au.au_number, intensity |-> i, intensity_value |-> v,
        intensity_label |-> Label(i), confidence |-> au.confidence]

\* IntensityEstimator.estimate; intensity_value is in units of 1/ScoreUnit
Estimate(au) ==
    IF ~au.detected
    THEN [au_number |-> au.au_number, intensity |-> ABSENT, intensity_value |-> 0,
          intensity_label |-> "-", confidence |-> au.confidence]
    ELSE LET v == au.raw_score * 5
             i == IF 2 * v < ScoreUnit THEN ABSENT
                  ELSE IF 2 * v < 3 * ScoreUnit THEN TRACE
                  ELSE IF 2 * v < 5 * ScoreUnit THEN SLIGHT
                  ELSE IF 2 * v < 7 * ScoreUnit THEN MARKED
                  ELSE IF 2 * v < 9 * ScoreUnit THEN SEVERE
                  ELSE MAXIMUM
         IN [au_number |-> au.au_number, intensity |-> i, intensity_value |-> v,
             intensity_label |-> Label(i), confidence |-> au.confidence]

\* IntensityEstimator.estimate_all
EstimateAll(au_results) == [i \in 1..Len(au_results) |-> Estimate(au_results[i])]

\* EMOTION_DEFINITIONS in the order of the dict; valence and arousal in tenths
EMOTION_DEFINITIONS == <<
    [name |-> "happiness", required_aus |-> {6, 12}, optional_aus |-> {25, 26},
     valence |-> 10, arousal |-> 5],
    [name |-> "sadness", required_aus |-> {1, 4, 15}, optional_aus |-> {6, 17},
     valence |-> -7, arousal |-> -3],
    [name |-> "surprise", required_aus |-> {1, 2, 5, 26}, optional_aus |-> {27},
     valence |-> 0, arousal |-> 8],
    [name |-> "fear", required_aus |-> {1, 2, 4, 5, 20, 26}, optional_aus |-> {7, 25},
     valence |-> -8, arousal |-> 9],
    [name |-> "anger", required_aus |-> {4, 5, 7, 23}, optional_aus |-> {10, 17, 25, 26},
     valence |-> -8, arousal |-> 7],
    [name |-> "disgust", required_aus |-> {9, 15}, optional_aus |-> {4, 6, 10, 17},
     valence |-> -6, arousal |-> 3],
    [name |-> "contempt", required_aus |-> {12}, optional_aus |-> {},
     valence |-> -4, arousal |-> 1] >>

\* EmotionMapper._get_intensities: the intensity values when the intensity
\* map is not empty, raw_score * 5 of the AU results otherwise
GetIntensities(au_results, intensity_results) ==
    IF intensity_results # <<>>
    THEN [au \in Keys(intensity_results) |-> Lookup(intensity_results, au).intensity_value]
    ELSE [au \in Keys(au_results) |-> Lookup(au_results, au).raw_score * 5]

\* sum(au_intensities.get(au, 0) for au in S)
RECURSIVE SumIntensities(_, _)
SumIntensities(S, au_intensities) ==
    IF S = {} THEN 0
    ELSE LET au == CHOOSE x \in S : TRUE IN
         (IF au \in DOMAIN au_intensities THEN au_intensities[au] ELSE 0)
         + SumIntensities(S \ {au}, au_intensities)

\* EmotionMapper._evaluate_emotion: the EmotionResult, or nothing
EvaluateEmotion(d, detected_aus, au_intensities) ==
    LET required == d.required_aus
        optional == d.optional_aus
        matched_required == required \cap detected_aus
        matched_optional == optional \cap detected_aus
        base == (7 * EUnit * Cardinality(matched_required)) \div (10 * Cardinality(required))
        opt  == IF optional # {}
                THEN (2 * EUnit * Cardinality(matched_optional)) \div (10 * Cardinality(optional))
                ELSE 0
        \* intensity / 5.0 * 0.02 per matched AU
        intensity_bonus ==
            SumIntensities(matched_required \cup matched_optional, au_intensities)
                * (EUnit \div (250 * ScoreUnit))
    IN IF required = {} THEN <<>>
       ELSE IF 2 * Cardinality(matched_required) < Cardinality(required) THEN <<>>
       ELSE << [emotion |-> d.name,
                confidence |-> Min(base + opt + intensity_bonus, EUnit),
                valence |-> d.valence, arousal |-> d.arousal,
                matched_aus |-> matched_required \cup matched_optional,
                missing_aus |-> required \ detected_aus] >>

\* list.sort(key=lambda x: x.confidence, reverse=True): a stable sort,
\* descending in the confidence
RECURSIVE InsertByConfidence(_, _)
InsertByConfidence(x, s) ==
    IF s = <<>> THEN <<x>>
    ELSE IF x.confidence > Head(s).confidence THEN <<x>> \o s
    ELSE <<Head(s)>> \o InsertByConfidence(x, Tail(s))

RECURSIVE SortEmotionsFrom(_, _)
SortEmotionsFrom(s, i) ==
    IF i = 0 THEN <<>> ELSE InsertByConfidence(s[i], SortEmotionsFrom(s, i - 1))

\* mutant: the list is left in the order of EMOTION_DEFINITIONS
SortEmotions_Unsorted(s) == s

SortEmotions(s) == SortEmotionsFrom(s, Len(s))

\* the loop of EmotionMapper.map over EMOTION_DEFINITIONS
RECURSIVE Evaluated(_, _, _)
Evaluated(i, detected_aus, au_intensities) ==
    IF i = 0 THEN <<>>
    ELSE Evaluated(i - 1, detected_aus, au_intensities)
         \o EvaluateEmotion(EMOTION_DEFINITIONS[i], detected_aus, au_intensities)

NeutralEmotion(confidence) ==
    [emotion |-> "neutral", confidence |-> confidence, valence |-> 0, arousal |-> 0,
     matched_aus |-> {}, missing_aus |-> {}]

\* mutant: no "neutral" entry is put in front of the list
Map_NoNeutral(au_results, intensity_results) ==
    LET detected_aus == {au \in Keys(au_results) : Lookup(au_results, au).detected}
        au_intensities == GetIntensities(au_results, intensity_results)
    IN SortEmotions(Evaluated(Len(EMOTION_DEFINITIONS), detected_aus, au_intensities))

\* EmotionMapper.map
Map(au_results, intensity_results) ==
    LET detected_aus == {au \in Keys(au_results) : Lookup(au_results, au).detected}
        au_intensities == GetIntensities(au_results, intensity_results)
        emotions == SortEmotions(Evaluated(Len(EMOTION_DEFINITIONS), detected_aus, au_intensities))
    IN IF emotions = <<>> THEN <<NeutralEmotion(EUnit)>>
       ELSE IF 10 * emotions[1].confidence < 3 * EUnit
            THEN <<NeutralEmotion(EUnit - emotions[1].confidence)>> \o emotions
            ELSE emotions

\* sums over an emotions list
RECURSIVE TotalConfidence(_)
TotalConfidence(es) ==
    IF es = <<>> THEN 0 ELSE Head(es).confidence + TotalConfidence(Tail(es))

RECURSIVE WeightedValence(_)
WeightedValence(es) ==
    IF es = <<>> THEN 0 ELSE Head(es).valence * Head(es).confidence + WeightedValence(Tail(es))

RECURSIVE WeightedArousal(_)
WeightedArousal(es) ==
    IF es = <<>> THEN 0 ELSE Head(es).arousal * Head(es).confidence + WeightedArousal(Tail(es))

\* a float that is a quotient is kept as numerator and denominator
Zero == [num |-> 0, den |-> 1]

\* EmotionMapper.get_valence_arousal: valence and arousal, the weighted sums
\* (in tenths) over the total confidence
GetValenceArousal(au_results, intensity_results) ==
    LET emotions == Map(au_results, intensity_results)
        total == TotalConfidence(emotions)
    IN IF emotions = <<>> \/ total = 0 THEN <<Zero, Zero>>
       ELSE << [num |-> WeightedValence(emotions), den |-> 10 * total],
               [num |-> WeightedArousal(emotions), den |-> 10 * total] >>

Abs(x) == IF x < 0 THEN -x ELSE x

\* FACSAnalyzer._emotion_ensemble: confidence * 1.1 when the valence of the
\* emotion is within 0.3 of the estimated valence, * 0.9 otherwise, re-sorted
EmotionEnsemble(au_results, intensity_results) ==
    LET emotions1 == Map(au_results, intensity_results)
        v == GetValenceArousal(au_results, intensity_results)[1]
        Reweigh(e) ==
            IF Abs(10 * v.num - e.valence * v.den) < 3 * v.den
            THEN [e EXCEPT !.confidence = (e.confidence * 11) \div 10]
            ELSE [e EXCEPT !.confidence = (e.confidence * 9) \div 10]
    IN SortEmotions([i \in 1..Len(emotions1) |-> Reweigh(emotions1[i])])

\* mutant: the oldest map is never dropped
HistoryAfter_NoPop(history, window_size, au_results) == Append(history, au_results)

\* TemporalFilter.update, the history after the call
HistoryAfter(history, window_size, au_results) ==
    LET h == Append(history, au_results)
    IN IF Len(h) > window_size THEN Tail(h) ELSE h

RECURSIVE SumRaw(_, _)
SumRaw(h, au) ==
    IF h = <<>> THEN 0
    ELSE (IF au \in Keys(Head(h)) THEN Lookup(Head(h), au).raw_score ELSE 0) + SumRaw(Tail(h), au)

RECURSIVE SumConfidence(_, _)
SumConfidence(h, au) ==
    IF h = <<>> THEN 0
    ELSE (IF au \in Keys(Head(h)) THEN Lookup(Head(h), au).confidence ELSE 0)
         + SumConfidence(Tail(h), au)

RECURSIVE CountHas(_, _)
CountHas(h, au) ==
    IF h = <<>> THEN 0
    ELSE (IF au \in Keys(Head(h)) THEN 1 ELSE 0) + CountHas(Tail(h), au)

\* TemporalFilter.update, the returned map: the input itself while the
\* history holds fewer than two maps, otherwise the input with confidence and
\* raw_score replaced by their means over the history
TemporalFilterUpdate(history, window_size, au_results) ==
    LET h == HistoryAfter(history, window_size, au_results)
        Smoothed(au) ==
            [au EXCEPT !.confidence = SumConfidence(h, au.au_number) \div CountHas(h, au.au_number),
                       !.raw_score  = SumRaw(h, au.au_number) \div CountHas(h, au.au_number)]
    IN IF Len(h) < 2 THEN au_results
       ELSE [i \in 1..Len(au_results) |-> Smoothed(au_results[i])]

\* mutant: every smoothed entry is kept, whatever its confidence
ThresholdFilter_KeepAll(au_results, threshold) == au_results

\* the dict comprehension of _analyze_realtime_mode: the entries whose
\* confidence is at least au_threshold, in the order of the dict
RECURSIVE ThresholdFilter(_, _)
ThresholdFilter(au_results, threshold) ==
    IF au_results = <<>> THEN <<>>
    ELSE (IF Head(au_results).confidence >= threshold THEN <<Head(au_results)>> ELSE <<>>)
         \o ThresholdFilter(Tail(au_results), threshold)

\* FACSAnalyzer._adjust_by_baseline: confidence and raw_score times
\* 0.5 + 0.5 * adjustment, the factor given in quarters (2, 3 or 4)
AdjustByBaseline(au_results, quarters) ==
    [i \in 1..Len(au_results) |->
        [au_results[i] EXCEPT !.confidence = (au_results[i].confidence * quarters) \div 4,
                              !.raw_score  = (au_results[i].raw_score * quarters) \div 4]]

\* the AUs FACSAnalyzer._compute_symmetry scores (the keys of pairs)
SymmetryAUs == {1, 2, 6, 7, 12, 15}

\* the loop of _analyze_accurate_mode that stores symmetry_scores[au] in the
\* asymmetry of each AU result that has one
RecordSymmetry(au_results, symmetry_scores) ==
    [i \in 1..Len(au_results) |->
        IF au_results[i].au_number \in DOMAIN symmetry_scores
        THEN [au_results[i] EXCEPT !.asymmetry = symmetry_scores[au_results[i].au_number]]
        ELSE au_results[i]]

\* AnalysisMode and the entries of AnalysisModeConfig.CONFIGS that analyze reads
Modes == {"realtime", "balanced", "accurate"}

SmoothingWindow(mode) == IF mode = "realtime" THEN 3 ELSE 1

\* au_threshold of the realtime mode, 0.4
RealtimeThreshold == (40 * ScoreUnit) \div 100

\* the scales of the accurate mode's multi-scale detection: 1.0, 0.75, 1.25
Scales == 1..3

\* the landmark indices compute_distances, compute_angles and detect_all
\* read without a length test (slices and the guarded indices 62 and 66 do
\* not raise)
LandmarkIndices ==
    {37, 41, 38, 40, 36, 39, 43, 47, 44, 46, 42, 45, 48, 54, 51, 57, 21, 22}
    \cup {17, 21, 26, 22}
    \cup {21, 22, 17, 26, 27, 48, 54, 51, 57, 30, 36, 45, 40, 41, 46, 47}

\* numpy raises IndexError for an index that is not below the length
RaisesIndexError(n) == \E i \in LandmarkIndices : i >= n

\* AnalysisResult() as constructed: every field at its default
DefaultResult ==
    [face_landmarks |-> None, au_results |-> <<>>, intensity_results |-> <<>>,
     emotions |-> <<>>, facs_code |-> "Neutral", valence |-> Zero, arousal |-> Zero]

\* AnalysisResult.is_valid: face_data is not None and its landmarks are not None
IsValid(result) == result.face_landmarks # None

\* the tails of the three analysis paths, from the AU results on
ResultOf(n, au_results, emotions) ==
    LET intensity_results == EstimateAll(au_results)
        va == GetValenceArousal(au_results, intensity_results)
    IN [face_landmarks |-> n, au_results |-> au_results,
        intensity_results |-> intensity_results,
        emotions |-> emotions,
        facs_code |-> FormatFacsCode(intensity_results),
        valence |-> va[1], arousal |-> va[2]]

Returned(result) == [raised |-> "none", result |-> result]

Raised(exception) == [raised |-> exception, result |-> DefaultResult]

\* FACSAnalyzer._analyze_realtime_mode
AnalyzeRealtime(inp, history, window_size) ==
    IF inp.found = {} THEN Returned(DefaultResult)
    ELSE IF RaisesIndexError(inp.n) THEN Raised("IndexError")
    ELSE LET au_results ==
                 ThresholdFilter(TemporalFilterUpdate(history, window_size, DetectAll(inp.scores, inp.asymmetries)),
                                 RealtimeThreshold)
         IN Returned(ResultOf(inp.n, au_results, Map(au_results, EstimateAll(au_results))))

\* mutant: the test for missing landmarks is left out
AnalyzeBalanced_NoNoneTest(inp) ==
    IF RaisesIndexError(inp.n) THEN Raised("IndexError")
    ELSE LET au_results == DetectAll(inp.scores, inp.asymmetries)
         IN Returned(ResultOf(inp.n, au_results, Map(au_results, EstimateAll(au_results))))

\* FACSAnalyzer._analyze_balanced_mode
AnalyzeBalanced(inp) ==
    IF inp.found = {} THEN Returned(DefaultResult)
    ELSE IF RaisesIndexError(inp.n) THEN Raised("IndexError")
    ELSE LET au_results == DetectAll(inp.scores, inp.asymmetries)
         IN Returned(ResultOf(inp.n, au_results, Map(au_results, EstimateAll(au_results))))

\* FACSAnalyzer._analyze_accurate_mode; landmarks - baseline raises
\* ValueError when the two arrays differ in length
AnalyzeAccurate(inp, calibrated, baseline) ==
    IF inp.found = {} THEN Returned(DefaultResult)
    ELSE IF calibrated /\ baseline # None /\ baseline # inp.n THEN Raised("ValueError")
    ELSE IF RaisesIndexError(inp.n) THEN Raised("IndexError")
    ELSE LET detected == DetectAll(inp.scores, inp.asymmetries)
             adjusted == IF calibrated /\ baseline # None
                         THEN AdjustByBaseline(detected, inp.quarters)
                         ELSE detected
             au_results == RecordSymmetry(adjusted, inp.symmetry)
         IN Returned(ResultOf(inp.n, au_results,
                              EmotionEnsemble(au_results, EstimateAll(au_results))))

\* the raw scores of the frames: 0, 0.1, 0.2 and 0.44
ScoreLevels == {0, 120, 240, 528}

ZeroScores == [i \in 1..Len(AU_NUMBERS) |-> 0]

\* the score arrays in which only AUs of aus score above 0, at most k of them
ScoreArrays(aus, levels, k) ==
    {[i \in 1..Len(AU_NUMBERS) |-> IF AU_NUMBERS[i] \in aus THEN f[AU_NUMBERS[i]] ELSE 0] :
        f \in {g \in [aus -> levels] : Cardinality({a \in aus : g[a] # 0}) <= k}}

\* frames of a video: AU12 absent, weak or strong, AU6 absent or strong
RealtimeFrames ==
    {sc \in ScoreArrays({6, 12}, {0, 240, 528}, MaxActive) :
        \A i \in 1..Len(AU_NUMBERS) : AU_NUMBERS[i] = 6 => sc[i] # 240}

\* still images
StillFrames == ScoreArrays({1, 4, 6, 12, 15, 26}, ScoreLevels, MaxActive)

\* the lengths of the landmark arrays a detector hands over
LandmarkCounts == {10, 60, 68, 70}


\* the length of the array a landmark detector of this repository returns
StandardCount == 68

\* the lengths of the landmark arrays calibrate stores
CalibrationCounts == {StandardCount}

\* a smile: AU6 and AU12 at 0.44
SmileScores == [i \in 1..Len(AU_NUMBERS) |-> IF AU_NUMBERS[i] \in {6, 12} THEN 528 ELSE 0]

\* the asymmetries of a face: none, or the left mouth corner and the left
\* cheek raised 0.3 and 0.2 more than the right ones
Lopsided == [i \in 1..Len(AU_NUMBERS) |-> IF AU_NUMBERS[i] = 12 THEN 360
                                          ELSE IF AU_NUMBERS[i] = 6 THEN 240 ELSE 0]

\* what _compute_symmetry returns: the distance between the mirrored
\* landmarks in pixels over 10 (0, 0.5 and 1.5 here), the same for every AU;
\* the accurate mode alone computes it
SymmetryLevels == {0, 600, 1800}

SymmetryScores(mode) ==
    IF mode = "accurate" THEN {[au \in SymmetryAUs |-> v] : v \in SymmetryLevels}
    ELSE {<<>>}

\* the input of an analyze call that finds no face
NoFace ==
    [found |-> {}, n |-> None, scores |-> ZeroScores, asymmetries |-> ZeroScores,
     symmetry |-> <<>>, quarters |-> 4]

\* what analyze reads from outside in one call: the scales at which the
\* detector finds landmarks, the length of the landmark array, the scores
\* and asymmetries the geometry yields, the symmetry scores and the magnitude
\* of the change from the baseline.  The frames vary for the standard
\* length, on a symmetric face; the lopsided face and the other lengths come
\* with the smile.
AnalyzeInputs(mode, calibrated, baseline) ==
    LET founds == IF mode = "accurate" THEN SUBSET Scales \ {{}} ELSE {{1}}
        frames == IF mode = "realtime" THEN RealtimeFrames ELSE StillFrames
        adjusts == mode = "accurate" /\ calibrated /\ baseline # None
        stops(n) == RaisesIndexError(n) \/ (adjusts /\ baseline # n)
        plain == CHOOSE sy \in SymmetryScores(mode) : \A au \in DOMAIN sy : sy[au] = 0
    IN {NoFace}
       \cup {[found |-> fd, n |-> n, scores |-> sc, asymmetries |-> ZeroScores,
              symmetry |-> plain, quarters |-> q] :
                fd \in founds,
                n \in {c \in {StandardCount} : ~stops(c)},
                sc \in frames,
                q \in IF adjusts THEN {2, 3, 4} ELSE {4}}
       \cup {[found |-> fd, n |-> n, scores |-> SmileScores, asymmetries |-> Lopsided,
              symmetry |-> sy, quarters |-> q] :
                fd \in founds,
                n \in {c \in {StandardCount} : ~stops(c)},
                sy \in SymmetryScores(mode),
                q \in IF adjusts THEN {2, 3, 4} ELSE {4}}
       \cup {[found |-> fd, n |-> n, scores |-> SmileScores, asymmetries |-> ZeroScores,
              symmetry |-> plain, quarters |-> 4] :
                fd \in founds, n \in {c \in LandmarkCounts : ~stops(c)}}
       \cup {[found |-> fd, n |-> n, scores |-> ZeroScores, asymmetries |-> ZeroScores,
              symmetry |-> plain, quarters |-> 4] :
                fd \in founds, n \in {c \in LandmarkCounts : stops(c)}}

\* how many of the latest AU maps the record of the filter's input keeps:
\* one more than the largest window
SeenKept == SmoothingWindow("realtime") + 1

\* no analyze call on record
NoCall ==
    /\ a_in = NoFace
    /\ a_out = Returned(DefaultResult)
    /\ a_called = FALSE
    /\ a_smoothed = <<>>

\* the record of the latest analyze call is dropped when the analyzer is
\* reconfigured
ForgetAnalyze ==
    /\ a_in' = NoFace
    /\ a_out' = Returned(DefaultResult)
    /\ a_called' = FALSE
    /\ a_smoothed' = <<>>

\* FACSAnalyzer.__init__
AInit ==
    /\ a_mode \in Modes
    /\ a_window = SmoothingWindow(a_mode)
    /\ a_history = <<>>
    /\ a_calibrated = FALSE
    /\ a_baseline = None
    /\ a_seen = <<>>
    /\ a_k = 0
    /\ NoCall

AIdle ==
    /\ AInit
    /\ a_mode = "balanced"

\* FACSAnalyzer.set_mode
SetMode ==
    /\ \E mode \in Modes :
        /\ a_mode' = mode
        /\ a_window' = SmoothingWindow(mode)
        /\ a_calibrated' = IF mode # "accurate" THEN FALSE ELSE a_calibrated
    /\ a_history' = <<>>
    /\ a_seen' = <<>>
    /\ a_k' = 0
    /\ ForgetAnalyze
    /\ UNCHANGED a_baseline
    /\ UNCHANGED nonavars

\* FACSAnalyzer.calibrate
Calibrate ==
    /\ \E landmarks \in {None} \cup CalibrationCounts :
        IF landmarks # None
        THEN a_baseline' = landmarks /\ a_calibrated' = TRUE
        ELSE UNCHANGED <<a_baseline, a_calibrated>>
    /\ ForgetAnalyze
    /\ UNCHANGED <<a_mode, a_window, a_history, a_seen, a_k>>
    /\ UNCHANGED nonavars

\* FACSAnalyzer.analyze, called once the caller is done with the result of
\* the call before
Analyze ==
    /\ ~a_called
    /\ \E inp \in AnalyzeInputs(a_mode, a_calibrated, a_baseline) :
        /\ a_in' = inp
        /\ a_out' = IF a_mode = "realtime" THEN AnalyzeRealtime(inp, a_history, a_window)
                    ELSE IF a_mode = "accurate"
                         THEN AnalyzeAccurate(inp, a_calibrated, a_baseline)
                         ELSE AnalyzeBalanced(inp)
        /\ IF a_mode = "realtime" /\ inp.found # {} /\ ~RaisesIndexError(inp.n)
           THEN LET au_results == DetectAll(inp.scores, inp.asymmetries)
                    seen == Append(a_seen, au_results)
                IN /\ a_history' = HistoryAfter(a_history, a_window, au_results)
                   /\ a_smoothed' = TemporalFilterUpdate(a_history, a_window, au_results)
                   /\ a_seen' = IF Len(seen) > SeenKept
                                THEN SubSeq(seen, 2, Len(seen)) ELSE seen
                   /\ a_k' = Min(a_k + 1, SeenKept)
           ELSE /\ a_smoothed' = <<>>
                /\ UNCHANGED <<a_history, a_seen, a_k>>
    /\ a_called' = TRUE
    /\ UNCHANGED <<a_mode, a_window, a_calibrated, a_baseline>>
    /\ UNCHANGED nonavars

\* the caller drops the result (or handles the exception) of the latest
\* analyze call; the analyzer keeps no reference to it
Discard ==
    /\ a_called
    /\ ForgetAnalyze
    /\ UNCHANGED <<a_mode, a_window, a_history, a_calibrated, a_baseline, a_seen, a_k>>
    /\ UNCHANGED nonavars

\* ========================================================== Part IV
\* The AU detectors.  A detector reads the landmarks and the distances only
\* through the normalised quantities below (each a length over the eye
\* distance, or an eye aspect ratio), kept in thousandths.  On the grid of
\* Features every quantity is a multiple of 10, which keeps each quotient of
\* the scoring formulas an integer number of 1/ScoreUnit.
FeatureNames ==
    {"right_dist_au1", "left_dist_au1", "right_dist_au2", "left_dist_au2",
     "brow_dist", "right_ear", "left_ear", "right_dist_au6", "left_dist_au6",
     "dist_au9", "right_elev", "left_elev", "mouth_width", "right_dep",
     "left_dep", "mouth_height_inner", "mouth_height_outer"}

\* x / scale, x and scale in thousandths, in units of 1/ScoreUnit (x itself
\* for the scale 1000)
Ratio(x, scale) == (x * ScoreUnit) \div scale

\* max(0, x)
Max0(x) == IF x > 0 THEN x ELSE 0

\* np.clip(x, 0.0, 1.0) and min(max(0, x), 1.0)
Clip01(x) == IF x < 0 THEN 0 ELSE IF x > ScoreUnit THEN ScoreUnit ELSE x

\* np.clip(x, -1.0, 1.0)
Clip11(x) == IF x < -ScoreUnit THEN -ScoreUnit ELSE IF x > ScoreUnit THEN ScoreUnit ELSE x

\* a detector's answer for one AU
ScoreOf(score, asymmetry) == [score |-> score, asymmetry |-> asymmetry]

\* VectorizedAUDetector._compute_all_scores_vectorized, the entry of one AU
VectorizedScore(au, f) ==
    LET avg_ear == (f.right_ear + f.left_ear) \div 2
    IN CASE au = 1 ->
              ScoreOf(Clip01(Ratio((f.right_dist_au1 + f.left_dist_au1) \div 2 - 180, 120)),
                      Clip11(Ratio(f.left_dist_au1 - f.right_dist_au1, 1000)))
         [] au = 2 ->
              ScoreOf(Clip01(Ratio((f.right_dist_au2 + f.left_dist_au2) \div 2 - 150, 100)),
                      Clip11(Ratio(f.left_dist_au2 - f.right_dist_au2, 1000)))
         [] au = 4 -> ScoreOf(Clip01(Ratio(350 - f.brow_dist, 120)), 0)
         [] au = 5 ->
              ScoreOf(Clip01(Ratio(avg_ear - 280, 120)),
                      Clip11(Ratio(f.left_ear - f.right_ear, 1000)))
         [] au = 7 ->
              ScoreOf(Clip01(Ratio(250 - avg_ear, 100)),
                      Clip11(Ratio(f.right_ear - f.left_ear, 1000)))
         [] au = 43 ->
              ScoreOf(Clip01(Ratio(200 - avg_ear, 150)),
                      Clip11(Ratio(f.right_ear - f.left_ear, 1000)))
         [] au = 6 ->
              LET right_score == Clip01(Ratio(750 - f.right_dist_au6, 180))
                  left_score == Clip01(Ratio(750 - f.left_dist_au6, 180))
              IN ScoreOf((right_score + left_score) \div 2, Clip11(left_score - right_score))
         [] au = 9 -> ScoreOf(Clip01(Ratio(350 - f.dist_au9, 120)), 0)
         [] au = 12 ->
              LET wide == (Clip01(Ratio(f.mouth_width - 480, 100)) * 3) \div 10
                  right_score == (Clip01(Ratio(f.right_elev - 20, 60)) * 7) \div 10 + wide
                  left_score == (Clip01(Ratio(f.left_elev - 20, 60)) * 7) \div 10 + wide
              IN ScoreOf(Clip01((right_score + left_score) \div 2),
                         Clip11(Ratio(f.left_elev - f.right_elev, 1000)))
         [] au = 15 ->
              LET right_score == Clip01(Ratio(f.right_dep, 50))
                  left_score == Clip01(Ratio(f.left_dep, 50))
              IN ScoreOf((right_score + left_score) \div 2, Clip11(left_score - right_score))
         [] au = 25 -> ScoreOf(Clip01(Ratio(f.mouth_height_inner - 20, 80)), 0)
         [] au = 26 -> ScoreOf(Clip01(Ratio(f.mouth_height_outer - 50, 120)), 0)

\* AUDetector._detect_builtin
DetectBuiltin(au, f) ==
    LET avg_ear == (f.right_ear + f.left_ear) \div 2
    IN CASE au = 1 ->
              ScoreOf(Clip01(Ratio((f.right_dist_au1 + f.left_dist_au1) \div 2 - 180, 120)),
                      Clip11(Ratio(f.left_dist_au1 - f.right_dist_au1, 1000)))
         [] au = 2 ->
              ScoreOf(Clip01(Ratio((f.right_dist_au2 + f.left_dist_au2) \div 2 - 150, 100)),
                      Clip11(Ratio(f.left_dist_au2 - f.right_dist_au2, 1000)))
         [] au = 4 -> ScoreOf(Clip01(Ratio(350 - f.brow_dist, 120)), 0)
         [] au = 5 -> ScoreOf(Clip01(Ratio(avg_ear - 280, 120)), 0)
         [] au = 6 ->
              ScoreOf(Clip01(Ratio(750 - (f.right_dist_au6 + f.left_dist_au6) \div 2, 180)),
                      Clip11(Ratio(f.left_dist_au6 - f.right_dist_au6, 1000)))
         [] au = 7 -> ScoreOf(Clip01(Ratio(250 - avg_ear, 100)), 0)
         [] au = 12 ->
              LET elev == (Max0(Ratio((f.right_elev + f.left_elev) \div 2 - 20, 60)) * 7) \div 10
                  wide == (Max0(Ratio(f.mouth_width - 480, 100)) * 3) \div 10
              IN ScoreOf(Min(elev + wide, ScoreUnit),
                         Clip11(Ratio(f.left_elev - f.right_elev, 1000)))
         [] au = 25 -> ScoreOf(Clip01(Ratio(f.mouth_height_inner - 20, 80)), 0)
         [] au = 26 -> ScoreOf(Clip01(Ratio(f.mouth_height_outer - 50, 120)), 0)
         [] au = 43 -> ScoreOf(Clip01(Ratio(200 - avg_ear, 150)), 0)
         [] OTHER -> ScoreOf(0, 0)

\* AUDetectionStrategyBase._compute_bilateral_score
ComputeBilateralScore(right_val, left_val, baseline, scale) ==
    LET right_score == Max0(Ratio(right_val - baseline, scale))
        left_score == Max0(Ratio(left_val - baseline, scale))
    IN ScoreOf(Min((right_score + left_score) \div 2, ScoreUnit),
               Clip11(left_score - right_score))

\* the detect methods of the strategy classes AU1Strategy .. AU43Strategy
StrategyDetect(au, f) ==
    CASE au = 1 -> ComputeBilateralScore(f.right_dist_au1, f.left_dist_au1, 180, 120)
      [] au = 2 -> ComputeBilateralScore(f.right_dist_au2, f.left_dist_au2, 150, 100)
      [] au = 4 -> ScoreOf(Min(Max0(Ratio(350 - f.brow_dist, 120)), ScoreUnit), 0)
      [] au = 5 -> ComputeBilateralScore(f.right_ear, f.left_ear, 280, 120)
      [] au = 6 ->
           LET right_score == Max0(Ratio(750 - f.right_dist_au6, 180))
               left_score == Max0(Ratio(750 - f.left_dist_au6, 180))
           IN ScoreOf(Min((right_score + left_score) \div 2, ScoreUnit),
                      Clip11(left_score - right_score))
      [] au = 7 ->
           LET right_score == Max0(Ratio(250 - f.right_ear, 100))
               left_score == Max0(Ratio(250 - f.left_ear, 100))
           IN ScoreOf(Min((right_score + left_score) \div 2, ScoreUnit),
                      Clip11(left_score - right_score))
      [] au = 9 -> ScoreOf(Clip01(Ratio(350 - f.dist_au9, 120)), 0)
      [] au = 12 ->
           LET wide == (Max0(Ratio(f.mouth_width - 480, 100)) * 3) \div 10
               right_score == (Max0(Ratio(f.right_elev - 20, 60)) * 7) \div 10 + wide
               left_score == (Max0(Ratio(f.left_elev - 20, 60)) * 7) \div 10 + wide
           IN ScoreOf(Min((right_score + left_score) \div 2, ScoreUnit),
                      Clip11(left_score - right_score))
      [] au = 15 -> ComputeBilateralScore(f.right_dep, f.left_dep, 0, 50)
      [] au = 25 -> ScoreOf(Clip01(Ratio(f.mouth_height_inner - 20, 80)), 0)
      [] au = 26 -> ScoreOf(Clip01(Ratio(f.mouth_height_outer - 50, 120)), 0)
      [] au = 43 ->
           LET right_score == Max0(Ratio(200 - f.right_ear, 150))
               left_score == Max0(Ratio(200 - f.left_ear, 150))
           IN ScoreOf(Min((right_score + left_score) \div 2, ScoreUnit),
                      Clip11(left_score - right_score))

\* the AU numbers of the strategies get_all_strategies() returns
StrategyAUs == {1, 2, 4, 5, 6, 7, 9, 12, 15, 25, 26, 43}

\* the keys of AU_DEFINITIONS, in the order of the dict
AU_DEFINITIONS == <<1, 2, 4, 5, 6, 7, 9, 10, 12, 15, 17, 20, 23, 25, 26, 43>>

\* AUDetector._score_to_intensity
ScoreToIntensity(score) ==
    IF 2 * score < LOW THEN ABSENT
    ELSE IF score < LOW THEN TRACE
    ELSE IF 100 * score < 66 * HIGH THEN SLIGHT
    ELSE IF score < HIGH THEN MARKED
    ELSE IF 10 * score < 13 * HIGH THEN SEVERE
    ELSE MAXIMUM

\* AUDetector.detect_all over the features f, with strategies registered for
\* the AUs of strategies: one entry per key of AU_DEFINITIONS
LegacyDetectAll(f, strategies) ==
    [i \in 1..Len(AU_DEFINITIONS) |->
        LET au == AU_DEFINITIONS[i]
            s == IF au \in strategies THEN StrategyDetect(au, f) ELSE DetectBuiltin(au, f)
        IN [au_number  |-> au,
            detected   |-> s.score >= LOW,
            confidence |-> IF s.score > 0 THEN Min((s.score * ScoreUnit) \div HIGH, ScoreUnit)
                           ELSE 0,
            intensity  |-> ScoreToIntensity(s.score),
            raw_score  |-> s.score,
            asymmetry  |-> s.asymmetry]]

\* VectorizedAUDetector.detect_all over the features f
VectorizedDetectAll(f) ==
    DetectAll([i \in 1..Len(AU_NUMBERS) |-> VectorizedScore(AU_NUMBERS[i], f).score],
              [i \in 1..Len(AU_NUMBERS) |-> VectorizedScore(AU_NUMBERS[i], f).asymmetry])

\* a face at rest: every AU scores 0 on every path
NeutralFeatures ==
    [right_dist_au1 |-> 120, left_dist_au1 |-> 120, right_dist_au2 |-> 90,
     left_dist_au2 |-> 90, brow_dist |-> 400, right_ear |-> 260, left_ear |-> 260,
     right_dist_au6 |-> 810, left_dist_au6 |-> 810, dist_au9 |-> 410,
     right_elev |-> 0, left_elev |-> 0, mouth_width |-> 450, right_dep |-> -10,
     left_dep |-> -10, mouth_height_inner |-> 10, mouth_height_outer |-> 40]

\* the values a quantity takes when the face moves
Moved(name) ==
    CASE name \in {"right_dist_au1", "left_dist_au1"} -> {240, 300}
      [] name \in {"right_dist_au2", "left_dist_au2"} -> {200, 250}
      [] name = "brow_dist" -> {320, 290}
      [] name \in {"right_ear", "left_ear"} -> {340, 180}
      [] name \in {"right_dist_au6", "left_dist_au6"} -> {690, 600}
      [] name = "dist_au9" -> {320, 260}
      [] name \in {"right_elev", "left_elev"} -> {50, 110}
      [] name = "mouth_width" -> {530, 600}
      [] name \in {"right_dep", "left_dep"} -> {20, 60}
      [] name = "mouth_height_inner" -> {60, 100}
      [] name = "mouth_height_outer" -> {110, 170}

\* the faces in which at most k quantities are off their value at rest
RECURSIVE FacesMoved(_)
FacesMoved(k) ==
    IF k = 0 THEN {NeutralFeatures}
    ELSE FacesMoved(k - 1)
         \cup UNION {{[f EXCEPT ![n] = v] : f \in FacesMoved(k - 1), v \in Moved(n)} :
                        n \in FeatureNames}

Features == FacesMoved(MaxMoved)

\* the eye distance of the faces of Features as they are photographed
StandardEyeDistance == 100

\* the landmark arrays handed to the components, each a face and the
\* distance between its eyes in pixels: the faces of Features at the standard
\* size and the face at rest at that size and at half of it
LandmarkSets ==
    {[eye_distance |-> StandardEyeDistance, features |-> f] : f \in Features}
    \cup {[eye_distance |-> e, features |-> NeutralFeatures] : e \in {StandardEyeDistance \div 2, StandardEyeDistance}}

\* FaceAligner.compute_alignment: the alignment of a landmark array (its
\* eye distance; the rotation leaves every length as it is)
ComputeAlignment(landmarks) == landmarks.eye_distance

\* the quantities a detector computes from the landmarks and the distances
\* when the distances carry eye_dist as "eye_distance": a length in pixels
\* over eye_dist; the eye aspect ratios are quotients of two lengths
SeenFeatures(landmarks, eye_dist) ==
    [n \in FeatureNames |->
        IF n \in {"right_ear", "left_ear"} THEN landmarks.features[n]
        ELSE (landmarks.features[n] * landmarks.eye_distance) \div eye_dist]

\* mutant: the landmarks are normalised with the alignment of the call
\* before, as compute_angles does, and the new alignment is stored afterwards
LegacyComputeDistances_Stale(landmarks, last_alignment) ==
    [last_alignment |-> ComputeAlignment(landmarks),
     eye_distance |-> IF last_alignment = None THEN ComputeAlignment(landmarks)
                      ELSE last_alignment]

\* FeatureExtractor.compute_distances: the alignment it stores in
\* _last_alignment, and the eye_distance of that alignment, which it returns
\* as "eye_distance"
LegacyComputeDistances(landmarks, last_alignment) ==
    [last_alignment |-> ComputeAlignment(landmarks),
     eye_distance |-> ComputeAlignment(landmarks)]

\* OptimizedFeatureExtractor.compute_distances: "eye_distance"
OptimizedComputeDistances(landmarks) == landmarks.eye_distance

\* FeatureExtractor.compute_angles: face_roll and the other angles are those
\* of _last_alignment, computed only when there is none
LegacyComputeAngles(landmarks, last_alignment) ==
    IF last_alignment = None THEN ComputeAlignment(landmarks) ELSE last_alignment

\* one pass over a landmark array with the components FACSAnalyzer builds:
\* compute_distances, compute_angles, detect_all, estimate_all and
\* format_facs_code
RunComponents(landmarks, optimized, strategies, last_alignment) ==
    LET legacy == LegacyComputeDistances(landmarks, last_alignment)
        eye_dist == IF optimized THEN OptimizedComputeDistances(landmarks)
                    ELSE legacy.eye_distance
        f == SeenFeatures(landmarks, eye_dist)
        au_results == IF optimized THEN VectorizedDetectAll(f)
                      ELSE LegacyDetectAll(f, strategies)
        intensity_results == EstimateAll(au_results)
    IN [alignment |-> IF optimized THEN last_alignment ELSE legacy.last_alignment,
        face_roll |-> IF optimized THEN None
                      ELSE LegacyComputeAngles(landmarks, legacy.last_alignment),
        au_results |-> au_results,
        intensity_results |-> intensity_results,
        facs_code |-> FormatFacsCode(intensity_results)]

\* no landmark array on record
NoLandmarks == [eye_distance |-> None, features |-> NeutralFeatures]

NoRun == [alignment |-> None, face_roll |-> None, au_results |-> <<>>, intensity_results |-> <<>>,
          facs_code |-> "Neutral"]

\* FACSAnalyzer.__init__, as far as the components go
DInit ==
    /\ d_optimized \in BOOLEAN
    /\ d_strategies = {}
    /\ d_last_alignment = None
    /\ d_in = NoLandmarks
    /\ d_out = NoRun
    /\ d_ref_in = NoLandmarks
    /\ d_ref_out = NoRun
    /\ d_between = FALSE

DIdle ==
    /\ DInit
    /\ d_optimized = TRUE

\* AUDetector.register_strategy for each strategy of get_all_strategies();
\* the runs on record were made with the detector as it was
RegisterStrategies ==
    /\ ~d_optimized
    /\ d_strategies = {}
    /\ d_strategies' = StrategyAUs
    /\ d_in' = NoLandmarks
    /\ d_out' = NoRun
    /\ d_ref_in' = NoLandmarks
    /\ d_ref_out' = NoRun
    /\ d_between' = FALSE
    /\ UNCHANGED <<d_optimized, d_last_alignment>>
    /\ UNCHANGED nondvars

\* the components process one landmark array
Run ==
    /\ \E landmarks \in LandmarkSets :
        LET out == RunComponents(landmarks, d_optimized, d_strategies, d_last_alignment)
        IN /\ d_in' = landmarks
           /\ d_out' = out
           /\ d_last_alignment' = out.alignment
           /\ IF d_ref_in = NoLandmarks
              THEN d_ref_in' = landmarks /\ d_ref_out' = out /\ d_between' = FALSE
              ELSE /\ UNCHANGED <<d_ref_in, d_ref_out>>
                   /\ d_between' = (d_between \/ landmarks # d_ref_in)
    /\ UNCHANGED <<d_optimized, d_strategies>>
    /\ UNCHANGED nondvars

\* ========================================================== Part V
\* TemporalFilter in the arithmetic of the program.  raw_score and confidence
\* are Python floats (IEEE 754 binary64); sum() adds them from left to right
\* and each addition and the division by len() round to the nearest value,
\* ties to even.  A float that is not 0 is [m, e]: m the Precision bits of
\* its significand, most significant first and m[1] = 1, e the exponent of the
\* last bit; 0.0 is FloatZero.  The values here are positive and far from the
\* overflow and underflow thresholds.
Precision == 53

FloatZero == [m |-> <<>>, e |-> 0]

Zeros(n) == [i \in 1..n |-> 0]

\* a natural number in bits, without its leading zeros
Strip(b) ==
    IF \A i \in 1..Len(b) : b[i] = 0 THEN <<>>
    ELSE SubSeq(b, CHOOSE i \in 1..Len(b) : b[i] = 1 /\ \A j \in 1..(i - 1) : b[j] = 0, Len(b))

\* the sum of the bits lo..hi of a and b and the carry c into bit hi: the
\* bits s of the sum and the carry c out of bit lo (the span is halved to
\* keep the recursion shallow, the low half added first)
RECURSIVE AddBitsOver(_, _, _, _, _)
AddBitsOver(a, b, lo, hi, c) ==
    IF lo = hi
    THEN [s |-> <<(a[lo] + b[lo] + c) % 2>>, c |-> (a[lo] + b[lo] + c) \div 2]
    ELSE LET mid == (lo + hi) \div 2
             right == AddBitsOver(a, b, mid + 1, hi, c)
             left == IF right.c = 0 THEN AddBitsOver(a, b, lo, mid, 0)
                     ELSE AddBitsOver(a, b, lo, mid, 1)
         IN [s |-> left.s \o right.s, c |-> left.c]

\* a + b for two natural numbers in bits
PlusBits(a, b) ==
    LET n == Max(Len(a), Len(b))
        sum == AddBitsOver(Zeros(n - Len(a)) \o a, Zeros(n - Len(b)) \o b, 1, n, 0)
    IN Strip(<<sum.c>> \o sum.s)

\* the float nearest to the natural number b * 2^e, ties to even
RoundToFloat(b, e) ==
    IF b = <<>> THEN FloatZero
    ELSE IF Len(b) <= Precision
    THEN [m |-> b \o Zeros(Precision - Len(b)), e |-> e - (Precision - Len(b))]
    ELSE LET keep == SubSeq(b, 1, Precision)
             up == /\ b[Precision + 1] = 1
                   /\ \/ keep[Precision] = 1
                      \/ \E i \in (Precision + 2)..Len(b) : b[i] = 1
             r == IF up THEN PlusBits(keep, <<1>>) ELSE keep
             drop == Len(b) - Precision
         IN IF Len(r) > Precision
            THEN [m |-> SubSeq(r, 1, Precision), e |-> e + drop + 1]
            ELSE [m |-> r, e |-> e + drop]

\* x + y
FloatAdd(x, y) ==
    IF x.m = <<>> THEN y
    ELSE IF y.m = <<>> THEN x
    ELSE LET lo == Min(x.e, y.e)
         IN RoundToFloat(PlusBits(x.m \o Zeros(x.e - lo), y.m \o Zeros(y.e - lo)), lo)

\* long division of the bits lo..hi of b by n with the remainder r so far:
\* the bits q of the quotient and the remainder r left, which is below n
\* (the high half is divided first)
RECURSIVE DivBitsOver(_, _, _, _, _)
DivBitsOver(b, n, lo, hi, r) ==
    IF lo = hi
    THEN [q |-> <<(2 * r + b[lo]) \div n>>, r |-> (2 * r + b[lo]) % n]
    ELSE LET mid == (lo + hi) \div 2
             left == DivBitsOver(b, n, lo, mid, r)
             right == DivBitsOver(b, n, mid + 1, hi, left.r)
         IN IF left.r < n THEN [q |-> left.q \o right.q, r |-> right.r]
            ELSE [q |-> <<>>, r |-> n]

\* x / n for an integer n > 0: the quotient to Precision + 2 more bits, and
\* one more bit that tells whether a remainder is left
FloatDiv(x, n) ==
    IF x.m = <<>> THEN x
    ELSE LET b == x.m \o Zeros(Precision + 2)
             d == DivBitsOver(b, n, 1, Len(b), 0)
         IN RoundToFloat(Strip(d.q \o <<IF d.r # 0 THEN 1 ELSE 0>>),
                         x.e - (Precision + 2) - 1)

\* sum(values) of Python: 0 + values[1] + values[2] + ...
RECURSIVE FloatSumFrom(_, _)
FloatSumFrom(acc, values) ==
    IF values = <<>> THEN acc
    ELSE FloatSumFrom(FloatAdd(acc, Head(values)), Tail(values))

FloatSum(values) == FloatSumFrom(FloatZero, values)

\* the float whose hex() is 0x1.{digits}p{p}, from its 13 hexadecimal digits
RECURSIVE HexBits(_)
HexBits(digits) ==
    IF digits = <<>> THEN <<>>
    ELSE LET d == Head(digits)
         IN <<d \div 8, (d \div 4) % 2, (d \div 2) % 2, d % 2>> \o HexBits(Tail(digits))

Binary64(digits, p) == [m |-> <<1>> \o HexBits(digits), e |-> p - (Precision - 1)]

\* 0.1, 0.25, 0.5, 0.625 and 1.0
Float_0_1 == Binary64(<<9, 9, 9, 9, 9, 9, 9, 9, 9, 9, 9, 9, 10>>, -4)

Float_0_25 == Binary64(Zeros(13), -2)

Float_0_5 == Binary64(Zeros(13), -1)

Float_0_625 == Binary64(<<4>> \o Zeros(12), -1)

Float_1_0 == Binary64(Zeros(13), 0)

\* the entries of the history that hold the AU, oldest first
RECURSIVE EntriesOf(_, _)
EntriesOf(h, au) ==
    IF h = <<>> THEN <<>>
    ELSE (IF au \in Keys(Head(h)) THEN <<Lookup(Head(h), au)>> ELSE <<>>)
         \o EntriesOf(Tail(h), au)

\* TemporalFilter.update, the returned map: the input itself while the
\* history holds fewer than two maps, otherwise the input with confidence and
\* raw_score replaced by sum(...) / len(...) over the history
FloatTemporalFilterUpdate(history, window_size, au_results) ==
    LET h == HistoryAfter(history, window_size, au_results)
        Smoothed(au) ==
            LET entries == EntriesOf(h, au.au_number)
                scores == [i \in 1..Len(entries) |-> entries[i].raw_score]
                confs == [i \in 1..Len(entries) |-> entries[i].confidence]
            IN [au EXCEPT !.confidence = FloatDiv(FloatSum(confs), Len(confs)),
                          !.raw_score  = FloatDiv(FloatSum(scores), Len(scores))]
    IN IF Len(h) < 2 THEN au_results
       ELSE [i \in 1..Len(au_results) |-> Smoothed(au_results[i])]

\* an AUDetectionResult as a detector builds it from a raw score
FloatResult(au, raw, confidence, intensity) ==
    [au_number |-> au, detected |-> intensity >= SLIGHT, confidence |-> confidence,
     intensity |-> intensity, raw_score |-> raw, asymmetry |-> 0]

\* the maps given to the filter: no AU; AU12 at 0.1; AU6 at 0.5 with AU12
\* at 0.25; AU6 at 0.1; AU12 at 0.5
FilterMaps ==
    {<<>>,
     <<FloatResult(12, Float_0_1, Float_0_25, TRACE)>>,
     <<FloatResult(6, Float_0_5, Float_1_0, SEVERE),
       FloatResult(12, Float_0_25, Float_0_625, SLIGHT)>>,
     <<FloatResult(6, Float_0_1, Float_0_25, TRACE)>>,
     <<FloatResult(12, Float_0_5, Float_1_0, SEVERE)>>}

\* TemporalFilter.__init__
TInit ==
    /\ t_window \in 1..MaxWindow
    /\ t_history = <<>>
    /\ t_in = <<>>
    /\ t_out = <<>>
    /\ t_same = 0

TIdle ==
    /\ TInit
    /\ t_window = 1

\* TemporalFilter.update
Update ==
    /\ \E au_results \in FilterMaps :
        /\ t_out' = FloatTemporalFilterUpdate(t_history, t_window, au_results)
        /\ t_history' = HistoryAfter(t_history, t_window, au_results)
        /\ t_in' = au_results
        /\ t_same' = IF t_same > 0 /\ au_results = t_in THEN Min(t_same + 1, t_window) ELSE 1
    /\ UNCHANGED t_window
    /\ UNCHANGED nontvars

\* TemporalFilter.reset
Reset ==
    /\ t_history' = <<>>
    /\ t_in' = <<>>
    /\ t_out' = <<>>
    /\ t_same' = 0
    /\ UNCHANGED t_window
    /\ UNCHANGED nontvars

\* ========================================================== Part VI
\* the raw scores of the results given to estimate: 0, 0.05, 0.2, 0.35, 0.44,
\* 0.55, 0.65, 0.85 and 1.0 (times 5, none sits on a limit between two
\* intensities)
EstimateScores == {0, 60, 240, 420, 528, 660, 780, 1020, 1200}

\* the AUDetectionResults given to estimate: built by hand as in the tests,
\* the detected flag set whatever the raw score
EstimateInputs ==
    {[DetectOne(au, raw, 0) EXCEPT !.detected = d] :
        au \in {1, 6, 12, 43}, raw \in EstimateScores, d \in BOOLEAN}

\* no IntensityResult yet
NoEstimate ==
    [au_number |-> None, intensity |-> ABSENT, intensity_value |-> 0,
     intensity_label |-> "", confidence |-> 0]

EInit ==
    /\ e_in \in EstimateInputs
    /\ e_out = NoEstimate
    /\ e_pc = "ready"

EIdle ==
    /\ EInit
    /\ e_in = [DetectOne(1, 0, 0) EXCEPT !.detected = FALSE]

\* IntensityEstimator.estimate, called once
EstimateCall ==
    /\ e_pc = "ready"
    /\ e_out' = Estimate(e_in)
    /\ e_pc' = "done"
    /\ UNCHANGED e_in
    /\ UNCHANGED nonevars

\* ========================================================== Part VII
\* A confidence is kept as a quotient.  AUDetector of facs/au_detector.py
\* has a threshold pair per AU; the detectors of facs/detectors have the pair
\* 0.15 and 0.4 for every AU.
PiecewiseAUs == {1, 4, 25, 43}

\* AUDetector.thresholds of facs/au_detector.py for the AUs of PiecewiseAUs
PiecewiseThresholds(au) ==
    CASE au = 1  -> [low |-> (15 * ScoreUnit) \div 100, high |-> (40 * ScoreUnit) \div 100]
      [] au = 4  -> [low |-> (12 * ScoreUnit) \div 100, high |-> (35 * ScoreUnit) \div 100]
      [] au = 25 -> [low |-> (10 * ScoreUnit) \div 100, high |-> (35 * ScoreUnit) \div 100]
      [] au = 43 -> [low |-> (30 * ScoreUnit) \div 100, high |-> (70 * ScoreUnit) \div 100]

\* mutant: the first piece is not halved
PiecewiseConfidence_NotHalved(raw_score, thresholds) ==
    IF raw_score < thresholds.low
    THEN [num |-> raw_score, den |-> thresholds.low]
    ELSE IF raw_score < thresholds.high
    THEN [num |-> 5 * (thresholds.high - thresholds.low) + 3 * (raw_score - thresholds.low),
          den |-> 10 * (thresholds.high - thresholds.low)]
    ELSE [num |-> Min(8 * ScoreUnit + 4 * (raw_score - thresholds.high), 10 * ScoreUnit),
          den |-> 10 * ScoreUnit]

\* AUDetector._detect_single_au of facs/au_detector.py, the confidence:
\* raw / low * 0.5 below low, 0.5 + (raw - low) / (high - low) * 0.3 below
\* high, min(0.8 + (raw - high) * 0.4, 1.0) from high on
PiecewiseConfidence(raw_score, thresholds) ==
    IF raw_score < thresholds.low
    THEN [num |-> raw_score, den |-> 2 * thresholds.low]
    ELSE IF raw_score < thresholds.high
    THEN [num |-> 5 * (thresholds.high - thresholds.low) + 3 * (raw_score - thresholds.low),
          den |-> 10 * (thresholds.high - thresholds.low)]
    ELSE [num |-> Min(8 * ScoreUnit + 4 * (raw_score - thresholds.high), 10 * ScoreUnit),
          den |-> 10 * ScoreUnit]

\* the confidence of detect_all of the detectors of facs/detectors:
\* min(raw / high, 1.0) above 0
ClipConfidence(au, raw_score) ==
    [num |-> DetectOne(au, raw_score, 0).confidence, den |-> ScoreUnit]

\* AUDetector._score_to_intensity of facs/au_detector.py
LegacyScoreToIntensity(score, thresholds) ==
    IF 2 * score < thresholds.low THEN ABSENT
    ELSE IF score < thresholds.low THEN TRACE
    ELSE IF 100 * (score - thresholds.low) < 33 * (thresholds.high - thresholds.low)
    THEN SLIGHT
    ELSE IF score < thresholds.high THEN MARKED
    ELSE IF 10 * score < 13 * thresholds.high THEN SEVERE
    ELSE MAXIMUM

\* the raw scores: 0, 0.05, 0.1, ..., 1.0, and 0.12 and 0.4325
RawScores == {60 * k : k \in 0..20} \cup {144, 519}

\* a raw score with the confidence and the intensity each detector derives
\* from it: clip, intensity and intensity_fast those of facs/detectors
\* (AUDetector and VectorizedAUDetector), piecewise and legacy_intensity those
\* of facs/au_detector.py
Scored(au, raw_score) ==
    [raw_score |-> raw_score,
     clip      |-> ClipConfidence(au, raw_score),
     piecewise |-> PiecewiseConfidence(raw_score, PiecewiseThresholds(au)),
     intensity |-> ScoreToIntensity(raw_score),
     intensity_fast |-> ScoreToIntensityFast(raw_score),
     legacy_intensity |-> LegacyScoreToIntensity(raw_score, PiecewiseThresholds(au))]

CInit ==
    /\ c_au \in PiecewiseAUs
    /\ c_now = Scored(c_au, 0)
    /\ c_prev = Scored(c_au, 0)
    /\ c_calls = 0

CIdle ==
    /\ CInit
    /\ c_au = 1

\* one AU scored on one more landmark array, by either detector
DetectSingle ==
    /\ \E raw_score \in RawScores : c_now' = Scored(c_au, raw_score)
    /\ c_prev' = c_now
    /\ c_calls' = Min(c_calls + 1, 2)
    /\ UNCHANGED c_au
    /\ UNCHANGED noncvars

\* ========================================================== Part VIII
\* The result dict an inference worker emits and its reconstruction in the
\* coordinator.  A dict is a record; the keys of a dict are its DOMAIN.
\* the fields without a default of the dataclasses of core/models.py
RequiredFields ==
    [AUDetectionResult |-> {"au_number", "name", "detected", "confidence", "intensity",
                            "raw_score"},
     IntensityResult   |-> {"au_number", "intensity", "intensity_value", "intensity_label",
                            "confidence"},
     EmotionResult     |-> {"emotion", "confidence", "valence", "arousal", "matched_aus",
                            "missing_aus", "description"}]

\* the keyword arguments _visualize_from_dict passes to each constructor,
\* each read from the serialized record under the same key
PassedFields ==
    [AUDetectionResult |-> {"au_number", "name", "detected", "confidence", "intensity",
                            "raw_score", "asymmetry"},
     IntensityResult   |-> {"au_number", "intensity", "confidence"},
     EmotionResult     |-> {"emotion", "confidence", "valence", "arousal"}]

\* InferenceWorker._config['threshold'] by mode
WorkerThreshold(mode) ==
    IF mode = "realtime" THEN (40 * ScoreUnit) \div 100
    ELSE IF mode = "balanced" THEN (30 * ScoreUnit) \div 100
    ELSE (20 * ScoreUnit) \div 100

\* the three dict comprehensions of InferenceWorker.run
SerializeAU(v) ==
    [au_number |-> v.au_number, name |-> "AU" \o ToString(v.au_number),
     detected |-> v.detected, confidence |-> v.confidence, intensity |-> v.intensity,
     raw_score |-> v.raw_score, asymmetry |-> v.asymmetry]

SerializeIntensity(v) ==
    [au_number |-> v.au_number, intensity |-> v.intensity, confidence |-> v.confidence]

SerializeEmotion(e) ==
    [emotion |-> e.emotion, confidence |-> e.confidence, valence |-> e.valence,
     arousal |-> e.arousal]

\* InferenceWorker.run from the landmarks on: the result_dict of a frame
ResultDict(mode, inp) ==
    IF inp.found = {} THEN [is_valid |-> FALSE]
    ELSE LET au_results == ThresholdFilter(DetectAll(inp.scores, inp.asymmetries),
                                           WorkerThreshold(mode))
             intensity_results == EstimateAll(au_results)
             emotions == Map(au_results, intensity_results)
             va == GetValenceArousal(au_results, intensity_results)
         IN [is_valid |-> TRUE,
             landmarks |-> inp.n,
             au_results |-> [i \in 1..Len(au_results) |-> SerializeAU(au_results[i])],
             intensity_results |->
                 [i \in 1..Len(intensity_results) |-> SerializeIntensity(intensity_results[i])],
             facs_code |-> FormatFacsCode(intensity_results),
             emotions |-> [i \in 1..Len(emotions) |-> SerializeEmotion(emotions[i])],
             valence |-> va[1], arousal |-> va[2]]

\* one constructor call of _visualize_from_dict on a serialized record v:
\* v[key] raises KeyError for a key v lacks, the dataclass constructor
\* raises TypeError when a field without a default is not passed
Rebuild(class, v) ==
    IF ~(PassedFields[class] \subseteq DOMAIN v) THEN "KeyError"
    ELSE IF ~(RequiredFields[class] \subseteq PassedFields[class]) THEN "TypeError"
    ELSE "none"

\* the first exception of a loop of constructor calls over the records vs
RebuildAll(class, vs) ==
    IF \A i \in 1..Len(vs) : Rebuild(class, vs[i]) = "none" THEN "none"
    ELSE Rebuild(class, vs[CHOOSE i \in 1..Len(vs) :
                               /\ Rebuild(class, vs[i]) # "none"
                               /\ \A j \in 1..(i - 1) : Rebuild(class, vs[j]) = "none"])

\* ParallelFACSProcessor._visualize_from_dict: what it raises
VisualizeFromDict(result_dict) ==
    IF "landmarks" \notin DOMAIN result_dict THEN "KeyError"
    ELSE IF RebuildAll("AUDetectionResult", result_dict.au_results) # "none"
    THEN RebuildAll("AUDetectionResult", result_dict.au_results)
    ELSE IF RebuildAll("IntensityResult", result_dict.intensity_results) # "none"
    THEN RebuildAll("IntensityResult", result_dict.intensity_results)
    ELSE RebuildAll("EmotionResult", result_dict.emotions)

\* the frames a worker takes: no face, or a still frame of the standard length
WorkerInputs ==
    {NoFace} \cup {[found |-> {1}, n |-> StandardCount, scores |-> sc,
                    asymmetries |-> ZeroScores, symmetry |-> <<>>, quarters |-> 4] :
                        sc \in StillFrames}

VInit ==
    /\ v_mode \in Modes
    /\ v_dict = [is_valid |-> FALSE]
    /\ v_raised = "none"
    /\ v_pc = "idle"

VIdle ==
    /\ VInit
    /\ v_mode = "realtime"

\* a worker puts the result of one more frame in the result queue
WorkerEmit ==
    /\ \E inp \in WorkerInputs : v_dict' = ResultDict(v_mode, inp)
    /\ v_raised' = "none"
    /\ v_pc' = "emitted"
    /\ UNCHANGED v_mode
    /\ UNCHANGED nonvvars

\* process_and_visualize on the latest result, after start()
Visualize ==
    /\ v_pc = "emitted"
    /\ v_raised' = IF v_dict.is_valid THEN VisualizeFromDict(v_dict) ELSE "none"
    /\ v_pc' = "done"
    /\ UNCHANGED <<v_mode, v_dict>>
    /\ UNCHANGED nonvvars

\* ========================================================== Part IX
\* FeatureExtractor and its remembered alignment.  A landmark array is the
\* face as the extractor sees it: the roll of the line through the eyes and
\* the yaw estimate, both in degrees, the distance between the eyes in
\* pixels, and the direction of the right eyebrow in the image, in degrees.
TiltedArrays ==
    [roll : {-10, 0, 10}, yaw : {0, 15}, eye_distance : {60, 120}, brow : {0, 20}]

\* np.degrees(np.arctan2(...)): a direction in (-180, 180]
Degrees(a) == ((a + 179) % 360) - 179

\* _last_alignment before any alignment was computed
NoAlignment == [roll |-> None, yaw |-> None, eye_distance |-> None]

\* FaceAligner.compute_alignment
AlignmentOf(landmarks) ==
    [roll |-> landmarks.roll, yaw |-> landmarks.yaw, eye_distance |-> landmarks.eye_distance]

\* FaceAligner.normalize_landmarks followed by _compute_angles_internal: the
\* rotation by -alignment.roll turns every direction by that angle, the shift
\* and the division by eye_distance leave directions as they are
NormalizedAngles(landmarks, alignment) == Degrees(landmarks.brow - alignment.roll)

\* FeatureExtractor.compute_angles: the dict it returns and _last_alignment
\* after the call
ComputeAngles(landmarks, use_alignment, last_alignment) ==
    IF use_alignment
    THEN LET alignment == IF last_alignment = NoAlignment THEN AlignmentOf(landmarks)
                          ELSE last_alignment
         IN [angles |-> [right_brow_angle |-> NormalizedAngles(landmarks, alignment),
                         face_roll |-> alignment.roll,
                         face_yaw |-> alignment.yaw],
             last_alignment |-> alignment]
    ELSE [angles |-> [right_brow_angle |-> Degrees(landmarks.brow),
                      face_roll |-> None, face_yaw |-> None],
          last_alignment |-> last_alignment]

\* no landmark array handed over yet
NoArray == [roll |-> None, yaw |-> None, eye_distance |-> None, brow |-> None]

NoAngles == [right_brow_angle |-> None, face_roll |-> None, face_yaw |-> None]

\* FeatureExtractor.__init__
XInit ==
    /\ x_use_alignment \in BOOLEAN
    /\ x_last_alignment = NoAlignment
    /\ x_in = NoArray
    /\ x_angles = NoAngles
    /\ x_op = "none"

XIdle ==
    /\ XInit
    /\ x_use_alignment = TRUE

\* FeatureExtractor.compute_distances(landmarks): with alignment it stores
\* the alignment of these landmarks
ComputeDistancesCall ==
    /\ \E landmarks \in TiltedArrays :
        /\ x_in' = landmarks
        /\ x_last_alignment' = IF x_use_alignment THEN AlignmentOf(landmarks)
                               ELSE x_last_alignment
    /\ x_op' = "distances"
    /\ UNCHANGED <<x_use_alignment, x_angles>>
    /\ UNCHANGED nonxvars

\* FeatureExtractor.compute_angles(landmarks)
ComputeAnglesCall ==
    /\ \E landmarks \in TiltedArrays :
        LET out == ComputeAngles(landmarks, x_use_alignment, x_last_alignment)
        IN /\ x_in' = landmarks
           /\ x_angles' = out.angles
           /\ x_last_alignment' = out.last_alignment
    /\ x_op' = "angles"
    /\ UNCHANGED x_use_alignment
    /\ UNCHANGED nonxvars

\* ========================================================== Part X
\* _evaluate_emotion of the two EmotionMapper classes, applied to one
\* definition, a set of detected AUs and their intensities.  Intensities are
\* in units of 1/ScoreUnit of a fifth (intensity_value 5.0 is 5 * ScoreUnit),
\* confidences in units of 1/EUnit.

\* EmotionMapper.complex_emotions of facs.emotion_mapper
ComplexEmotions == <<
    [name |-> "amusement", required_aus |-> {6, 12}, optional_aus |-> {25, 26},
     valence |-> 9, arousal |-> 6],
    [name |-> "embarrassment", required_aus |-> {6, 12, 15}, optional_aus |-> {7, 17},
     valence |-> -2, arousal |-> 4],
    [name |-> "pain", required_aus |-> {4, 6, 7, 9, 10}, optional_aus |-> {25, 26, 43},
     valence |-> -9, arousal |-> 7],
    [name |-> "concentration", required_aus |-> {4}, optional_aus |-> {7, 23, 24},
     valence |-> 0, arousal |-> 3],
    [name |-> "confusion", required_aus |-> {1, 2, 4}, optional_aus |-> {7, 15},
     valence |-> -3, arousal |-> 4],
    [name |-> "interest", required_aus |-> {1, 2}, optional_aus |-> {5, 26},
     valence |-> 4, arousal |-> 5],
    [name |-> "boredom", required_aus |-> {43}, optional_aus |-> {15, 17},
     valence |-> -3, arousal |-> -6],
    [name |-> "relief", required_aus |-> {12}, optional_aus |-> {6, 26},
     valence |-> 6, arousal |-> -3] >>

\* len(matched_required) / len(required) * 0.7
RequiredTerm(d, detected_aus) ==
    (7 * EUnit * Cardinality(d.required_aus \cap detected_aus))
        \div (10 * Cardinality(d.required_aus))

\* len(matched_optional) / len(optional) * 0.2, 0 without optional AUs
OptionalTerm(d, detected_aus) ==
    IF d.optional_aus # {}
    THEN (2 * EUnit * Cardinality(d.optional_aus \cap detected_aus))
             \div (10 * Cardinality(d.optional_aus))
    ELSE 0

\* facs.estimators.emotion_mapper: intensity_bonus, the sum of
\* intensity / 5.0 * 0.02 over the matched AUs
IntensityBonus(d, detected_aus, au_intensities) ==
    SumIntensities((d.required_aus \cup d.optional_aus) \cap detected_aus, au_intensities)
        * (EUnit \div (250 * ScoreUnit))

\* facs.emotion_mapper: intensity_bonus, the sum of intensity / 5.0 * 0.1
\* over the matched AUs
LegacyIntensityBonus(d, detected_aus, au_intensities) ==
    SumIntensities((d.required_aus \cup d.optional_aus) \cap detected_aus, au_intensities)
        * (EUnit \div (50 * ScoreUnit))

\* facs.emotion_mapper.EmotionMapper._evaluate_emotion: the confidence
LegacyConfidence(d, detected_aus, au_intensities) ==
    Min(RequiredTerm(d, detected_aus) + OptionalTerm(d, detected_aus)
            + Min(LegacyIntensityBonus(d, detected_aus, au_intensities), EUnit \div 10),
        EUnit)

\* one call of _evaluate_emotion: whether it returns an EmotionResult, the
\* three terms as the code computes them and the confidence of the result
EvaluateTerms(legacy, d, detected_aus, au_intensities) ==
    LET result == EvaluateEmotion(d, detected_aus, au_intensities)
        returned == 2 * Cardinality(d.required_aus \cap detected_aus)
                        >= Cardinality(d.required_aus)
    IN [returned |-> returned,
        required_term |-> RequiredTerm(d, detected_aus),
        optional_term |-> OptionalTerm(d, detected_aus),
        intensity_bonus |-> IF legacy
                            THEN Min(LegacyIntensityBonus(d, detected_aus, au_intensities),
                                     EUnit \div 10)
                            ELSE IntensityBonus(d, detected_aus, au_intensities),
        confidence |-> IF ~returned THEN 0
                       ELSE IF legacy THEN LegacyConfidence(d, detected_aus, au_intensities)
                       ELSE result[1].confidence]

\* the definitions a mapper evaluates
Definitions(legacy) ==
    IF legacy THEN {ComplexEmotions[i] : i \in 1..Len(ComplexEmotions)}
    ELSE {EMOTION_DEFINITIONS[i] : i \in 1..Len(EMOTION_DEFINITIONS)}

\* the AUs of VectorizedAUDetector.AU_NUMBERS that the fear, anger and pain
\* definitions name
MatchedPool == {1, 2, 4, 5, 6, 7, 9, 25, 26}

\* intensity_value of a detected AU: 2.5 or 5.0
IntensityLevels == {(5 * ScoreUnit) \div 2, 5 * ScoreUnit}

NoEvaluation ==
    [returned |-> FALSE, required_term |-> 0, optional_term |-> 0, intensity_bonus |-> 0,
     confidence |-> 0]

NoDefinition ==
    [definition |-> "none", detected_aus |-> {}, intensity |-> 0]

MInit ==
    /\ m_legacy \in BOOLEAN
    /\ m_in = NoDefinition
    /\ m_out = NoEvaluation
    /\ m_pc = "idle"

MIdle ==
    /\ MInit
    /\ m_legacy = FALSE

\* one call _evaluate_emotion(name, definition, detected_aus, au_intensities)
\* of a new mapper; every detected AU has the same intensity
EvaluateCall ==
    /\ m_pc = "idle"
    /\ \E d \in Definitions(m_legacy), detected_aus \in SUBSET MatchedPool,
          intensity \in IntensityLevels :
        /\ m_in' = [definition |-> d.name, detected_aus |-> detected_aus,
                    intensity |-> intensity]
        /\ m_out' = EvaluateTerms(m_legacy, d, detected_aus,
                                  [au \in detected_aus |-> intensity])
    /\ m_pc' = "done"
    /\ UNCHANGED m_legacy
    /\ UNCHANGED nonmvars

\* ========================================================== Part XI
\* FACSPlayer: the caller's play, pause, resume, toggle_play_pause and stop,
\* and the threads that run _playback_loop.  The recording holds MaxRecorded
\* frames, indexed from 0.  A loop thread is at "check" (the while test),
\* "state" (the test of _state), "end" (the test for the end of the
\* recording), "deliver" (the frame is read and passed to the callback),
\* "load" and "store" (the two halves of _current_frame += 1), or it has not
\* started ("none") or has left the loop ("exited").
Loops == 1..MaxLoops

NoLoop == [pc |-> "none", frame |-> 0]

LiveLoops == {t \in Loops : y_loop[t].pc \notin {"none", "exited"}}

\* FACSPlayer.__init__
YInit ==
    /\ y_state = "stopped"
    /\ y_stop_event = FALSE
    /\ y_current_frame = 0
    /\ y_playback_thread = None
    /\ y_loop = [t \in Loops |-> NoLoop]
    /\ y_started = 0
    /\ y_cpc = "idle"
    /\ y_op = "none"
    /\ y_delivered = <<>>

YIdle == YInit

\* play() past its test of _state: PLAYING, the stop event cleared, a new
\* thread created and started
StartLoop ==
    /\ y_started < MaxLoops
    /\ y_state' = "playing"
    /\ y_stop_event' = FALSE
    /\ y_started' = y_started + 1
    /\ y_playback_thread' = y_started + 1
    /\ y_loop' = [y_loop EXCEPT ![y_started + 1] = [pc |-> "check", frame |-> 0]]
    /\ UNCHANGED <<y_current_frame, y_cpc, y_delivered>>

\* play(): returns at once when PLAYING
Play ==
    /\ y_cpc = "idle"
    /\ y_state # "playing"
    /\ StartLoop
    /\ y_op' = "play"
    /\ UNCHANGED nonyvars

\* pause(): PLAYING becomes PAUSED
Pause ==
    /\ y_cpc = "idle"
    /\ y_state = "playing"
    /\ y_state' = "paused"
    /\ UNCHANGED <<y_stop_event, y_current_frame, y_playback_thread, y_loop, y_started,
                   y_cpc, y_delivered>>
    /\ y_op' = "pause"
    /\ UNCHANGED nonyvars

\* resume(): play() when PAUSED
Resume ==
    /\ y_cpc = "idle"
    /\ y_state = "paused"
    /\ StartLoop
    /\ y_op' = "resume"
    /\ UNCHANGED nonyvars

\* toggle_play_pause(): pause() when PLAYING, play() otherwise
TogglePlayPause ==
    /\ y_cpc = "idle"
    /\ IF y_state = "playing"
       THEN /\ y_state' = "paused"
            /\ UNCHANGED <<y_stop_event, y_current_frame, y_playback_thread, y_loop,
                           y_started, y_cpc, y_delivered>>
       ELSE StartLoop
    /\ y_op' = "toggle_play_pause"
    /\ UNCHANGED nonyvars

\* stop(), up to the join: the stop event set, STOPPED, _current_frame 0
StopCall ==
    /\ y_cpc = "idle"
    /\ y_stop_event' = TRUE
    /\ y_state' = "stopped"
    /\ y_current_frame' = 0
    /\ y_delivered' = <<>>
    /\ y_cpc' = IF y_playback_thread # None THEN "join" ELSE "idle"
    /\ UNCHANGED <<y_playback_thread, y_loop, y_started>>
    /\ y_op' = "stop"
    /\ UNCHANGED nonyvars

\* stop(): join(timeout=1.0) returns, the thread having left the loop or the
\* second having passed (the callback and the sleep between two frames take
\* any time), and _playback_thread is set to None
StopJoin ==
    /\ y_cpc = "join"
    /\ y_playback_thread' = None
    /\ y_cpc' = "idle"
    /\ UNCHANGED <<y_state, y_stop_event, y_current_frame, y_loop, y_started,
                   y_delivered>>
    /\ UNCHANGED y_op
    /\ UNCHANGED nonyvars

\* `while not self._stop_event.is_set()`
LoopCheck(t) ==
    /\ y_loop[t].pc = "check"
    /\ y_loop' = [y_loop EXCEPT ![t].pc = IF y_stop_event THEN "exited" ELSE "state"]
    /\ UNCHANGED <<y_state, y_stop_event, y_current_frame, y_playback_thread, y_started,
                   y_cpc, y_delivered>>
    /\ UNCHANGED y_op
    /\ UNCHANGED nonyvars

\* `if self._state != PlaybackState.PLAYING`: sleep and continue
LoopState(t) ==
    /\ y_loop[t].pc = "state"
    /\ y_loop' = [y_loop EXCEPT ![t].pc = IF y_state # "playing" THEN "check" ELSE "end"]
    /\ UNCHANGED <<y_state, y_stop_event, y_current_frame, y_playback_thread, y_started,
                   y_cpc, y_delivered>>
    /\ UNCHANGED y_op
    /\ UNCHANGED nonyvars

\* `if self._current_frame >= len(self._frames)`: STOPPED and break
LoopEnd(t) ==
    /\ y_loop[t].pc = "end"
    /\ IF y_current_frame >= MaxRecorded
       THEN /\ y_state' = "stopped"
            /\ y_loop' = [y_loop EXCEPT ![t].pc = "exited"]
       ELSE /\ y_loop' = [y_loop EXCEPT ![t].pc = "deliver"]
            /\ UNCHANGED y_state
    /\ UNCHANGED <<y_stop_event, y_current_frame, y_playback_thread, y_started, y_cpc,
                   y_delivered>>
    /\ UNCHANGED y_op
    /\ UNCHANGED nonyvars

\* result = self._frames[self._current_frame], which raises IndexError and
\* ends the thread when the index has gone past the end meanwhile, and
\* self._frame_callback(result, self._current_frame)
LoopDeliver(t) ==
    /\ y_loop[t].pc = "deliver"
    /\ IF y_current_frame >= MaxRecorded
       THEN /\ y_loop' = [y_loop EXCEPT ![t].pc = "exited"]
            /\ UNCHANGED y_delivered
       ELSE /\ y_loop' = [y_loop EXCEPT ![t].pc = "load"]
            /\ y_delivered' = Append(y_delivered, y_current_frame)
    /\ UNCHANGED <<y_state, y_stop_event, y_current_frame, y_playback_thread, y_started,
                   y_cpc>>
    /\ UNCHANGED y_op
    /\ UNCHANGED nonyvars

\* self._current_frame += 1, the load
LoopLoad(t) ==
    /\ y_loop[t].pc = "load"
    /\ y_loop' = [y_loop EXCEPT ![t].pc = "store", ![t].frame = y_current_frame]
    /\ UNCHANGED <<y_state, y_stop_event, y_current_frame, y_playback_thread, y_started,
                   y_cpc, y_delivered>>
    /\ UNCHANGED y_op
    /\ UNCHANGED nonyvars

\* self._current_frame += 1, the store, and the sleep up to the next frame
LoopStore(t) ==
    /\ y_loop[t].pc = "store"
    /\ y_current_frame' = y_loop[t].frame + 1
    /\ y_loop' = [y_loop EXCEPT ![t].pc = "check", ![t].frame = 0]
    /\ UNCHANGED <<y_state, y_stop_event, y_playback_thread, y_started, y_cpc,
                   y_delivered>>
    /\ UNCHANGED y_op
    /\ UNCHANGED nonyvars

PlaybackLoop(t) ==
    \/ LoopCheck(t)
    \/ LoopState(t)
    \/ LoopEnd(t)
    \/ LoopDeliver(t)
    \/ LoopLoad(t)
    \/ LoopStore(t)

\* ========================================================== specifications
Next == Coordinator \/ \E p \in Procs : Worker(p)

Init == PInit /\ FIdle /\ AIdle /\ DIdle /\ TIdle /\ EIdle /\ CIdle /\ VIdle /\ XIdle /\ MIdle /\ YIdle

Spec == Init /\ [][Next]_vars

\* Each worker is an operating-system process of its own and every blocking
\* call of its loop carries a timeout, so a worker that can take a step
\* eventually takes one.
LiveSpec == Init /\ [][Next]_vars /\ \A p \in Procs : WF_vars(Worker(p))

\* format_facs_code applied to one intensity map
FNext == FormatCall

FacsInit == PIdle /\ AIdle /\ DIdle /\ TIdle /\ FInit /\ EIdle /\ CIdle /\ VIdle /\ XIdle /\ MIdle /\ YIdle

FacsSpec == FacsInit /\ [][FNext]_vars

\* one analyzer, its methods called in any order
ANext == SetMode \/ Calibrate \/ Analyze \/ Discard

AnalyzerInit == PIdle /\ FIdle /\ DIdle /\ TIdle /\ AInit /\ EIdle /\ CIdle /\ VIdle /\ XIdle /\ MIdle /\ YIdle

AnalyzerSpec == AnalyzerInit /\ [][ANext]_vars

DNext == RegisterStrategies \/ Run

DetectorInit == PIdle /\ FIdle /\ AIdle /\ TIdle /\ DInit /\ EIdle /\ CIdle /\ VIdle /\ XIdle /\ MIdle /\ YIdle

DetectorSpec == DetectorInit /\ [][DNext]_vars

TNext == Update \/ Reset

FilterInit == PIdle /\ FIdle /\ AIdle /\ DIdle /\ TInit /\ EIdle /\ CIdle /\ VIdle /\ XIdle /\ MIdle /\ YIdle

FilterSpec == FilterInit /\ [][TNext]_vars

\* estimate applied to one AUDetectionResult
ENext == EstimateCall

EstimatorInit == PIdle /\ FIdle /\ AIdle /\ DIdle /\ TIdle /\ CIdle /\ EInit /\ VIdle /\ XIdle /\ MIdle /\ YIdle

EstimatorSpec == EstimatorInit /\ [][ENext]_vars

\* one AU scored on one landmark array after another
CNext == DetectSingle

ConfidenceInit == PIdle /\ FIdle /\ AIdle /\ DIdle /\ TIdle /\ EIdle /\ CInit /\ VIdle /\ XIdle /\ MIdle /\ YIdle

ConfidenceSpec == ConfidenceInit /\ [][CNext]_vars

\* results emitted by a worker and visualized by the coordinator
VNext == WorkerEmit \/ Visualize

VisualizeInit == PIdle /\ FIdle /\ AIdle /\ DIdle /\ TIdle /\ EIdle /\ CIdle /\ VInit /\ XIdle /\ MIdle /\ YIdle

VisualizeSpec == VisualizeInit /\ [][VNext]_vars

\* compute_distances and compute_angles calls on one FeatureExtractor
XNext == ComputeDistancesCall \/ ComputeAnglesCall

ExtractorInit == PIdle /\ FIdle /\ AIdle /\ DIdle /\ TIdle /\ EIdle /\ CIdle /\ VIdle /\ XInit /\ MIdle /\ YIdle

ExtractorSpec == ExtractorInit /\ [][XNext]_vars

\* _evaluate_emotion applied to one definition
MNext == EvaluateCall

MapperInit == PIdle /\ FIdle /\ AIdle /\ DIdle /\ TIdle /\ EIdle /\ CIdle /\ VIdle /\ XIdle /\ MInit /\ YIdle

MapperSpec == MapperInit /\ [][MNext]_vars

\* the caller of a FACSPlayer and its playback threads
YNext ==
    \/ Play
    \/ Pause
    \/ Resume
    \/ TogglePlayPause
    \/ StopCall
    \/ StopJoin
    \/ \E t \in Loops : PlaybackLoop(t)

PlayerInit == PIdle /\ FIdle /\ AIdle /\ DIdle /\ TIdle /\ EIdle /\ CIdle /\ VIdle /\ XIdle /\ MIdle /\ YInit

PlayerSpec == PlayerInit /\ [][YNext]_vars

\* ================================================================ claims
\* frames submitted since the latest start()
SinceStart == frame_counter - start_base

NoneTaken == taken \cap ((start_base + 1)..frame_counter) = {}

\* C1: backpressure without consumption.  No input queue ever holds more
\* than queue_size frames, and whenever submit_frame has returned and no
\* worker has taken a frame submitted since start(), the queue holds the
\* min(n, queue_size) most recently submitted frames in submission order.
C1_Backpressure ==
    /\ \A g \in Gens : Len(inq[g]) <= queue_size
    /\ (cpc = "idle" /\ Running /\ NoneTaken) =>
          inq[gen] = Ascending(frame_counter - Min(SinceStart, queue_size) + 1,
                               Min(SinceStart, queue_size))

\* more frames than the capacity were submitted and none was consumed
C1_Witness ==
    /\ cpc = "idle" /\ Running /\ NoneTaken
    /\ last_op = "submit" /\ sub_full
    /\ SinceStart > queue_size
    /\ Len(inq[gen]) = queue_size

\* C2: drop-oldest under concurrency.  When submit_frame found the queue
\* full and has returned, it has discarded one buffered frame and the new
\* frame has entered the queue.
C2_NewFrameKept ==
    (cpc = "idle" /\ last_op = "submit" /\ sub_full) =>
        (sub_drop # None /\ frame_counter \in enq)

\* C3: get_latest_result.  Every iteration of its loop can proceed without
\* waiting.  When it returns, the output queue is empty; it returns None
\* exactly if no result was ever received; if it dequeued nothing it returns
\* what the previous call returned, otherwise the last result it dequeued;
\* and if no worker used the output queue during the call, it dequeued exactly
\* the results present at the call and returns the one enqueued last.
GlrReturns == cpc = "glr" /\ cpc' = "idle"

C3_GetLatest ==
    [][ /\ (cpc = "glr" => ENABLED GetLatestStep)
        /\ GlrReturns =>
            /\ outq'[gen] = <<>>
            /\ (latest_result' = None) <=> ~ever_received'
            /\ glr_got' = <<>> => latest_result' = glr_prev
            /\ glr_got' # <<>> => latest_result' = Last(glr_got')
            /\ ~glr_touched' =>
                  /\ glr_got' = glr_snap
                  /\ glr_snap # <<>> => latest_result' = Last(glr_snap)
      ]_vars

\* a call that found two results waiting has returned the second
C3_Witness ==
    /\ cpc = "idle" /\ last_op = "glr"
    /\ Len(glr_snap) >= 2 /\ ~glr_touched
    /\ latest_result = Last(glr_snap)

StopReturns == cpc = "stop_join" /\ cpc' = "idle"

C5_Cancellation ==
    /\ \A g \in Gens :
          (g \in stop_set) ~> (\A p \in Procs : wk[p].gen = g => ~Alive(p))
    /\ [][StopReturns =>
            /\ workers' = <<>>
            /\ \A p \in Procs : wk'[p].pc \in {"none", "done", "killed"}]_vars

\* stop() has returned after a worker left its loop by itself while the
\* result queue was full
C5_Witness ==
    /\ cpc = "idle" /\ last_op = "stop" /\ gen > 0
    /\ \E p \in Procs : wk[p].pc = "done"
    /\ Len(outq[gen]) = queue_size

\* C6: start() is idempotent: the coordinator never has more than
\* num_workers live workers, nor more than num_workers entries in _workers.
C6_StartIdempotent ==
    /\ Cardinality(LiveWorkers) <= num_workers
    /\ Len(workers) <= num_workers

\* --------------------------------------------------------------- Part III
\* every derived field of a result at its default
AtDefaults(result) ==
    /\ result.facs_code = "Neutral"
    /\ result.valence.num = 0
    /\ result.arousal.num = 0
    /\ result.au_results = <<>>
    /\ result.intensity_results = <<>>
    /\ result.emotions = <<>>

\* C7: in every mode, analyze on a frame in which the detector finds no
\* landmarks (at none of the three scales in the accurate mode) returns,
\* without raising, a result with is_valid False and every derived field at
\* its default; a returned result has is_valid True exactly when landmarks
\* were found.
C7_NoFace ==
    a_called =>
        /\ a_in.found = {} =>
              /\ a_out.raised = "none"
              /\ ~IsValid(a_out.result)
              /\ AtDefaults(a_out.result)
        /\ a_out.raised = "none" => (IsValid(a_out.result) <=> a_in.found # {})

\* no landmarks at any of the three scales of the accurate mode
C7_Witness ==
    /\ a_called
    /\ a_mode = "accurate"
    /\ a_in.found = {}
    /\ a_out.raised = "none"
    /\ ~IsValid(a_out.result)
    /\ a_out.result.facs_code = "Neutral"

\* C8: when the landmark array does not have exactly 68 points, analyze
\* returns, without raising, a result with is_valid False and every derived
\* field at its default.
C8_InvalidLandmarks ==
    (a_called /\ a_in.found # {} /\ a_in.n # StandardCount) =>
        /\ a_out.raised = "none"
        /\ ~IsValid(a_out.result)
        /\ AtDefaults(a_out.result)

SortedByConfidence(es) ==
    \A i \in 1..(Len(es) - 1) : es[i].confidence >= es[i + 1].confidence

\* no emotion other than "neutral" has a confidence of 0.3 or more
NoNamedEmotion(es) ==
    \A i \in 1..Len(es) : es[i].emotion # "neutral" => 10 * es[i].confidence < 3 * EUnit

\* C9: the emotions list of every result, in every mode, the ensemble of the
\* accurate mode included, is sorted by confidence in descending order; the
\* list the mapper makes for a face starts with "neutral" whenever none of
\* its named emotions reaches 0.3.
C9_EmotionRanking ==
    (a_called /\ a_out.raised = "none") =>
        /\ SortedByConfidence(a_out.result.emotions)
        /\ IsValid(a_out.result) =>
              /\ a_out.result.emotions # <<>>
              /\ NoNamedEmotion(a_out.result.emotions) =>
                    a_out.result.emotions[1].emotion = "neutral"

\* the accurate mode ranks contempt before happiness, against the order of
\* EMOTION_DEFINITIONS
C9_Witness ==
    /\ a_called
    /\ a_mode = "accurate"
    /\ a_out.raised = "none"
    /\ Len(a_out.result.emotions) = 2
    /\ a_out.result.emotions[1].emotion = "contempt"
    /\ a_out.result.emotions[2].emotion = "happiness"
    /\ a_out.result.emotions[1].confidence > a_out.result.emotions[2].confidence

\* ------------------------------------------------------- Part III, scenarios
\* the AUs a result holds as detected
DetectedAUs(result) ==
    {au \in Keys(result.au_results) : Lookup(result.au_results, au).detected}

\* a quotient is greater than 1/2
AboveHalf(q) == 2 * q.num > q.den

\* C14: when AU6 and AU12 are the detected AUs of a result and both have a
\* raw_score above the high threshold, the first emotion of the result is
\* "happiness" and its valence is greater than 0.5.
C14_Happiness ==
    (/\ a_called /\ a_out.raised = "none"
     /\ DetectedAUs(a_out.result) = {6, 12}
     /\ \A au \in {6, 12} : Lookup(a_out.result.au_results, au).raw_score > HIGH) =>
        /\ a_out.result.emotions[1].emotion = "happiness"
        /\ AboveHalf(a_out.result.valence)


\* C15: when landmarks were found and no AU of the result is detected, the
\* result has facs_code "Neutral", its first emotion is "neutral", and its
\* valence and arousal are 0.
C15_Neutral ==
    (/\ a_called /\ a_out.raised = "none"
     /\ IsValid(a_out.result)
     /\ DetectedAUs(a_out.result) = {}) =>
        /\ a_out.result.facs_code = "Neutral"
        /\ a_out.result.emotions # <<>>
        /\ a_out.result.emotions[1].emotion = "neutral"
        /\ a_out.result.valence.num = 0
        /\ a_out.result.arousal.num = 0

\* a face with a score of 0.1, below the low threshold, analysed in the
\* balanced mode
C15_Witness ==
    /\ a_called /\ a_out.raised = "none"
    /\ a_mode = "balanced"
    /\ IsValid(a_out.result)
    /\ DetectedAUs(a_out.result) = {}
    /\ \E au \in Keys(a_out.result.au_results) :
          Lookup(a_out.result.au_results, au).raw_score > 0
    /\ a_out.result.facs_code = "Neutral"
    /\ a_out.result.emotions[1].emotion = "neutral"

\* the three numbers of an AUDetectionResult lie in their ranges
InRange(r) ==
    /\ 0 <= r.confidence /\ r.confidence <= ScoreUnit
    /\ 0 <= r.raw_score /\ r.raw_score <= ScoreUnit
    /\ -ScoreUnit <= r.asymmetry /\ r.asymmetry <= ScoreUnit

\* C17: in every mode, every AUDetectionResult of a returned result has
\* its confidence and its raw_score within [0, 1] and its asymmetry within
\* [-1, 1].
C17_ValueRanges ==
    (a_called /\ a_out.raised = "none") =>
        \A i \in 1..Len(a_out.result.au_results) : InRange(a_out.result.au_results[i])

\* a quotient in lowest terms
RECURSIVE Gcd(_, _)
Gcd(a, b) == IF b = 0 THEN a ELSE Gcd(b, a % b)

Reduced(q) ==
    LET g == Gcd(Abs(q.num), q.den)
    IN [num |-> q.num \div g, den |-> q.den \div g]

\* the confidence-weighted means of the valence and the arousal of a list of
\* emotions, 0 and 0 when the total confidence is 0
MeanAffect(es) ==
    IF TotalConfidence(es) = 0 THEN <<Zero, Zero>>
    ELSE << [num |-> WeightedValence(es), den |-> 10 * TotalConfidence(es)],
            [num |-> WeightedArousal(es), den |-> 10 * TotalConfidence(es)] >>

WithinOne(q) == -q.den <= q.num /\ q.num <= q.den

\* C18: the valence and the arousal of every result are the
\* confidence-weighted means of the valence and the arousal of the emotions
\* in the emotions list of that result (0 and 0 when the total confidence is
\* 0), and lie within [-1, 1].
C18_AggregateAffect ==
    (a_called /\ a_out.raised = "none") =>
        /\ Reduced(a_out.result.valence) = Reduced(MeanAffect(a_out.result.emotions)[1])
        /\ Reduced(a_out.result.arousal) = Reduced(MeanAffect(a_out.result.emotions)[2])
        /\ WithinOne(a_out.result.valence)
        /\ WithinOne(a_out.result.arousal)

\* ---------------------------------------------------------------- Part II
\* the entries of a map that are not ABSENT, as a set
ActiveSet(m) ==
    {<<m[j].au_number, m[j].intensity_label>> : j \in {k \in 1..Len(m) : m[k].intensity # ABSENT}}

MinAU(S) == CHOOSE x \in S : \A y \in S : x[1] <= y[1]

\* the code of a set of (AU number, label) pairs: smallest AU number first
RECURSIVE CodeOfSet(_)
CodeOfSet(S) ==
    IF S = {} THEN ""
    ELSE LET x == MinAU(S) IN
         "AU" \o ToString(x[1]) \o x[2] \o
         (IF S \ {x} = {} THEN "" ELSE " + " \o CodeOfSet(S \ {x}))

\* C10: format_facs_code returns "Neutral" when no entry is other than
\* ABSENT; otherwise the entries that are not ABSENT as "AU{number}{label}",
\* by ascending AU number, joined by " + ", whatever the insertion order
\* (AU12 at MARKED and AU6 at SLIGHT give "AU6B + AU12C").
C10_FacsCode ==
    f_pc = "done" =>
        /\ ActiveSet(f_map) = {} => f_code = "Neutral"
        /\ ActiveSet(f_map) # {} => f_code = CodeOfSet(ActiveSet(f_map))
        /\ ActiveSet(f_map) = {<<12, "C">>, <<6, "B">>} => f_code = "AU6B + AU12C"

\* AU12 at MARKED inserted before AU6 at SLIGHT, with an ABSENT entry
C10_Witness ==
    /\ f_pc = "done"
    /\ f_map = <<IntensityEntry(12, MARKED), IntensityEntry(1, ABSENT),
                 IntensityEntry(6, SLIGHT)>>
    /\ f_code = "AU6B + AU12C"

\* ---------------------------------------------------------------- Part IV
\* a run of the components is on record
HasRun == d_in # NoLandmarks

\* what VectorizedAUDetector.detect_all returns for the landmark array of the
\* latest run
VectorizedOfLatest == VectorizedDetectAll(SeenFeatures(d_in, OptimizedComputeDistances(d_in)))

\* two AUDetectionResults agree in the fields a caller reads
SameReading(a, b) ==
    /\ a.raw_score = b.raw_score
    /\ a.asymmetry = b.asymmetry
    /\ a.detected = b.detected
    /\ a.confidence = b.confidence
    /\ a.intensity = b.intensity

\* C11: for every landmark array and every AU the vectorized detector
\* scores, VectorizedAUDetector.detect_all and AUDetector.detect_all (with
\* the strategy classes registered, or with its own per-AU scoring) return
\* the same raw_score, asymmetry, detected flag, confidence and intensity.
C11_VectorizedEquivalence ==
    (HasRun /\ ~d_optimized) =>
        \A au \in Keys(VectorizedOfLatest) :
            /\ au \in Keys(d_out.au_results)
            /\ SameReading(Lookup(VectorizedOfLatest, au), Lookup(d_out.au_results, au))

\* C12: the components keep no state that influences a later result: when
\* the landmark array of the first run is processed again, after whatever
\* other arrays, the AU results, the intensity results and the FACS code are
\* those of the first run.
C12_Determinism ==
    (HasRun /\ d_in = d_ref_in) =>
        /\ d_out.au_results = d_ref_out.au_results
        /\ d_out.intensity_results = d_ref_out.intensity_results
        /\ d_out.facs_code = d_ref_out.facs_code

\* the stateful FeatureExtractor processed another landmark array between
\* two runs on the same expressive face
C12_Witness ==
    /\ ~d_optimized
    /\ d_between
    /\ d_in = d_ref_in
    /\ d_last_alignment = StandardEyeDistance
    /\ d_out.facs_code # "Neutral"
    /\ d_out = d_ref_out

\* the AUs AUDetector._detect_builtin has a branch for
BuiltinAUs == {1, 2, 4, 5, 6, 7, 12, 25, 26, 43}

\* the AUs of AU_DEFINITIONS the detector in use has no scoring for
Unscored ==
    {AU_DEFINITIONS[i] : i \in 1..Len(AU_DEFINITIONS)}
        \ (IF d_optimized THEN {AU_NUMBERS[i] : i \in 1..Len(AU_NUMBERS)}
           ELSE d_strategies \cup BuiltinAUs)

\* C16: the map detect_all returns, with the vectorized detector as with
\* AUDetector, has an entry for every AU of AU_DEFINITIONS; an AU the
\* detector has no scoring for is there with raw_score 0, asymmetry 0 and
\* detected False.
C16_EveryAUPresent ==
    HasRun =>
        \A i \in 1..Len(AU_DEFINITIONS) :
            /\ AU_DEFINITIONS[i] \in Keys(d_out.au_results)
            /\ AU_DEFINITIONS[i] \in Unscored =>
                  LET r == Lookup(d_out.au_results, AU_DEFINITIONS[i])
                  IN r.raw_score = 0 /\ r.asymmetry = 0 /\ ~r.detected

\* ---------------------------------------------------------------- Part V
\* C13: once the same map has been given to TemporalFilter.update for
\* window_size consecutive calls or more, the map returned has, for every AU,
\* the raw_score, confidence, detected flag, intensity and asymmetry of the
\* input.
C13_SteadyState ==
    t_same >= t_window =>
        /\ Keys(t_out) = Keys(t_in)
        /\ \A au \in Keys(t_in) : SameReading(Lookup(t_out, au), Lookup(t_in, au))

\* ---------------------------------------------------------------- Part VI
\* the letter of an intensity
LetterOf(intensity) ==
    CASE intensity = ABSENT  -> "-"
      [] intensity = TRACE   -> "A"
      [] intensity = SLIGHT  -> "B"
      [] intensity = MARKED  -> "C"
      [] intensity = SEVERE  -> "D"
      [] intensity = MAXIMUM -> "E"

\* C19: estimate returns, for a result whose detected flag is False,
\* intensity ABSENT with label "-" whatever the raw score; for every input
\* the label is the letter of the returned intensity and the AU number is
\* that of the input.
C19_Estimate ==
    e_pc = "done" =>
        /\ ~e_in.detected => (e_out.intensity = ABSENT /\ e_out.intensity_label = "-")
        /\ e_out.intensity \in {ABSENT, TRACE, SLIGHT, MARKED, SEVERE, MAXIMUM}
        /\ e_out.intensity_label = LetterOf(e_out.intensity)
        /\ e_out.au_number = e_in.au_number

\* a result with raw score 1.0 and the detected flag False was estimated
C19_Witness ==
    /\ e_pc = "done"
    /\ ~e_in.detected
    /\ e_in.raw_score = ScoreUnit
    /\ e_in.au_number = 12
    /\ e_out.intensity = ABSENT
    /\ e_out.intensity_label = "-"

\* ---------------------------------------------------------------- Part VII
\* p <= q for two quotients with positive denominators
AtMost(p, q) == p.num * q.den <= q.num * p.den

\* C20: for a fixed threshold pair, the confidence a detector derives from
\* the raw score does not decrease when the raw score increases, under the
\* clip policy and under the piecewise policy alike.
C20_Monotone ==
    (c_calls = 2 /\ c_prev.raw_score <= c_now.raw_score) =>
        /\ AtMost(c_prev.clip, c_now.clip)
        /\ AtMost(c_prev.piecewise, c_now.piecewise)

\* a raw score below the low threshold of AU4 and then one between its
\* thresholds: both confidences went up
C20_Witness ==
    /\ c_calls = 2
    /\ c_au = 4
    /\ c_prev.raw_score > 0
    /\ c_prev.raw_score < PiecewiseThresholds(c_au).low
    /\ c_now.raw_score > PiecewiseThresholds(c_au).low
    /\ c_now.raw_score < PiecewiseThresholds(c_au).high
    /\ ~AtMost(c_now.clip, c_prev.clip)
    /\ ~AtMost(c_now.piecewise, c_prev.piecewise)

\* --------------------------------------------------------------- Part VIII
\* C21: for every result dict with is_valid True that a worker emits,
\* process_and_visualize rebuilds the AUDetectionResult, IntensityResult and
\* EmotionResult records without raising.
C21_Reconstruction ==
    (v_pc = "done" /\ v_dict.is_valid) => v_raised = "none"

\* ------------------------------------------------------ Part III, smoothing
\* the last n entries of a sequence
LastN(s, n) == [i \in 1..n |-> s[Len(s) - n + i]]

\* the sum of a field of one AU over a sequence of AU maps
RECURSIVE SumOver(_, _, _)
SumOver(maps, au, field) ==
    IF maps = <<>> THEN 0
    ELSE Lookup(Head(maps), au)[field] + SumOver(Tail(maps), au, field)

\* the maps the window should hold: the last min(k, window_size) received
Window == LastN(a_seen, Min(a_k, a_window))

FilterRan == a_called /\ a_mode = "realtime" /\ a_smoothed # <<>>

\* C22: after any sequence of realtime frames and mode switches, the window
\* of the temporal filter holds exactly the last min(k, window_size) AU maps
\* received since the latest set_mode; every AU of the filter's output has
\* the mean confidence and the mean raw_score over those maps, and the
\* detected flag and the intensity of the current frame; the first frame
\* after a mode switch is returned as it is.
C22_Window ==
    /\ a_history = Window
    /\ FilterRan =>
          /\ Keys(a_smoothed) = Keys(Last(a_seen))
          /\ \A au \in Keys(a_smoothed) :
                LET r == Lookup(a_smoothed, au)
                    now == Lookup(Last(a_seen), au)
                IN /\ r.raw_score * Len(Window) = SumOver(Window, au, "raw_score")
                   /\ r.confidence * Len(Window) = SumOver(Window, au, "confidence")
                   /\ r.detected = now.detected
                   /\ r.intensity = now.intensity
          /\ a_k = 1 => a_smoothed = Last(a_seen)

\* the fourth frame since set_mode: the first one has left the window, and
\* AU12 scores 0 now after 0.44 twice, so its output differs from the frame
C22_Witness ==
    /\ FilterRan
    /\ a_k = SeenKept
    /\ Len(a_history) = a_window
    /\ a_seen[1] # a_seen[2]
    /\ Lookup(Last(a_seen), 12).raw_score = 0
    /\ Lookup(a_smoothed, 12).raw_score = 352
    /\ ~Lookup(a_smoothed, 12).detected

\* C23: compute_angles(L) returns the angles a new FeatureExtractor returns
\* for L, whatever compute_distances and compute_angles calls the instance
\* served before
C23_AnglesOfTheFrame ==
    x_op = "angles" =>
        x_angles = ComputeAngles(x_in, x_use_alignment, NoAlignment).angles

\* C24: the confidence of an evaluated emotion is 0.7 times the share of the
\* required AUs matched plus 0.2 times the share of the optional AUs matched
\* (0 without optional AUs) plus the intensity bonus, capped at 1, and the
\* bonus is at most 0.1 for every set of detected AUs and every intensity
C24_Confidence ==
    (m_pc = "done" /\ m_out.returned) =>
        /\ 10 * m_out.intensity_bonus <= EUnit
        /\ m_out.confidence
               = Min(m_out.required_term + m_out.optional_term + m_out.intensity_bonus, EUnit)

\* the step function over 0.5 * low, low, low + (high - low) / 3, high and
\* 1.3 * high
Steps(score, low, high) ==
    IF 2 * score < low THEN ABSENT
    ELSE IF score < low THEN TRACE
    ELSE IF 3 * (score - low) < high - low THEN SLIGHT
    ELSE IF score < high THEN MARKED
    ELSE IF 10 * score < 13 * high THEN SEVERE
    ELSE MAXIMUM

\* C25: every detector maps a raw score to the intensity of the step function
\* with the boundaries 0.5 * low, low, low + (high - low) / 3, high and
\* 1.3 * high of the AU's threshold pair
C25_Steps ==
    c_calls > 0 =>
        /\ c_now.intensity = Steps(c_now.raw_score, LOW, HIGH)
        /\ c_now.intensity_fast = Steps(c_now.raw_score, LOW, HIGH)
        /\ c_now.legacy_intensity
               = Steps(c_now.raw_score, PiecewiseThresholds(c_au).low,
                       PiecewiseThresholds(c_au).high)

\* ------------------------------------------------------ Part III, emotions
\* C26: in every mode, the accurate mode with its ensemble included, every
\* EmotionResult of a returned result has its confidence within [0, 1]
C26_EmotionConfidence ==
    (a_called /\ a_out.raised = "none") =>
        \A i \in 1..Len(a_out.result.emotions) :
            /\ 0 <= a_out.result.emotions[i].confidence
            /\ a_out.result.emotions[i].confidence <= EUnit

\* ------------------------------------------------------ Part III, the code
\* the entries of the intensity map of a result for the AUs the result holds
\* as detected, in the order of the dict
OfDetected(result) ==
    LET IsDetected(e) == e.au_number \in DetectedAUs(result)
    IN SelectSeq(result.intensity_results, IsDetected)

\* the result is one the sentence is about: balanced, realtime, or accurate
\* without a baseline
Uncalibrated ==
    \/ a_mode \in {"balanced", "realtime"}
    \/ a_mode = "accurate" /\ ~(a_calibrated /\ a_baseline # None)

\* C27: in the balanced mode, the realtime mode (after smoothing and the
\* threshold filter) and the accurate mode without a baseline, facs_code
\* names exactly the AUs whose detected flag is True in au_results: no
\* detected AU is rated ABSENT, and the code is the one built from the
\* detected AUs alone
C27_CodeIsDetected ==
    (a_called /\ a_out.raised = "none" /\ Uncalibrated) =>
        LET det == OfDetected(a_out.result)
        IN /\ \A i \in 1..Len(det) : det[i].intensity # ABSENT
           /\ a_out.result.facs_code
                  = IF det = <<>> THEN "Neutral"
                    ELSE JoinCode(SortByAU([i \in 1..Len(det) |->
                             <<det[i].au_number, det[i].intensity_label>>]))

\* a realtime result of a full window that holds AU6 as detected and AU12 as
\* kept by the filter but not detected in the current frame: the code names
\* AU6 alone
C27_Witness ==
    /\ FilterRan
    /\ a_out.raised = "none"
    /\ a_k = SeenKept
    /\ DetectedAUs(a_out.result) = {6}
    /\ 12 \in Keys(a_out.result.au_results)
    /\ a_out.result.facs_code # "Neutral"

\* ------------------------------------------------------- Part I, one worker
\* C28: with num_workers = 1, no step lowers the frame id held in
\* _latest_result: the results get_latest_result stores never decrease, for
\* every interleaving of submit_frame, the worker loop and get_latest_result
C28_OneWorkerMonotone ==
    [][num_workers = 1 => latest_result' >= latest_result]_vars

\* a get_latest_result call of a one-worker coordinator has returned with a
\* newer result than the one it held, the worker having used the output queue
\* during the call
C28_Witness ==
    /\ num_workers = 1
    /\ cpc = "idle"
    /\ last_op = "glr"
    /\ glr_prev # None
    /\ glr_touched
    /\ Len(glr_got) > 1
    /\ latest_result > glr_prev

\* ------------------------------------------------------ Part I, the frames
\* C29: a frame is popped by a worker at most once and at most one result of
\* it enters an output queue; a result in an output queue is the result of a
\* frame submitted before; a frame that submit_frame discarded from the input
\* queue is never popped by a worker and has no result
C29_OneResultPerFrame ==
    /\ \A f \in 1..MaxFrames :
        /\ took[f] <= 1
        /\ results[f] <= took[f]
        /\ took[f] > 0 => f \in enq /\ f <= frame_counter
        /\ f \in dropped => took[f] = 0 /\ results[f] = 0
    /\ \A g \in Gens : \A i \in 1..Len(outq[g]) :
        /\ outq[g][i] \in enq
        /\ outq[g][i] <= frame_counter
        /\ results[outq[g][i]] = 1

\* two workers have each popped a frame and delivered its result, and
\* another frame was discarded by submit_frame
C29_Witness ==
    /\ num_workers = 2
    /\ dropped # {}
    /\ Cardinality({f \in 1..MaxFrames : results[f] = 1}) >= 2
    /\ \E g \in Gens : Len(outq[g]) >= 2

\* ------------------------------------------------------------- Part XI
\* the indices of a sequence of deliveries go up by one, from delivery to
\* delivery
InIndexOrder(d) == \A i \in 1..(Len(d) - 1) : d[i + 1] = d[i] + 1

\* C30: across every sequence of play, pause, resume, toggle_play_pause and
\* stop calls at most one thread runs the playback loop, and the frames
\* delivered since the latest stop() were delivered once each, in index order
C30_SingleLoop ==
    /\ Cardinality(LiveLoops) <= 1
    /\ InIndexOrder(y_delivered)

====
